---- MODULE Spec2Model ----
(***************************************************************************)
(* AED location API: the dataset ingestion paths (the refresh service      *)
(* update_aed_database, the refresh endpoint's background task and the     *)
(* startup load) over the relational store, with a concurrent reader.      *)
(*                                                                         *)
(* Storage is PostgreSQL reached through one SQLAlchemy session per run    *)
(* (src/app/database.py:19-22, 75).  A session's DELETE and flushed        *)
(* INSERTs stay private to its transaction until COMMIT; a reader's        *)
(* statement sees committed rows only (READ COMMITTED, the engine's        *)
(* default: no isolation level is configured).  A flush that raises leaves *)
(* the session's transaction failed: every later flush or commit on that   *)
(* session raises until rollback() is called.                              *)
(***************************************************************************)
EXTENDS Integers, Sequences, FiniteSets, TLC

(***************************************************************************)
(* Bounds of the model.                                                    *)
(***************************************************************************)
\* Longest feed (number of parsed rows).
MaxRows == 3
\* Number of ingestion runs (startup loads and refreshes) in one behaviour.
MaxRuns == 2
\* The batch size of the ingestion loops (100 in the code, aed_service.py:183,
\* aeds.py:119, main.py:372), scaled down so that a feed of MaxRows rows
\* fills a batch and still has rows left over.
batch_size == 2
\* Number of reports created in one behaviour.
MaxReports == 2

(***************************************************************************)
(* Python values: a CSV cell as pandas hands it to the row loop, and the   *)
(* attribute values the loop builds.                                       *)
(***************************************************************************)
PyStr(s) == [t |-> "str", s |-> s, n |-> 0]
PyNum(n) == [t |-> "num", s |-> "", n |-> n]
PyBool(b) == [t |-> "bool", s |-> "", n |-> IF b THEN 1 ELSE 0]
\* A missing cell (float NaN).
NaN == [t |-> "nan", s |-> "", n |-> 0]
None == [t |-> "none", s |-> "", n |-> 0]
\* A Python int too large for a float (an object column): float() raises
\* OverflowError, which is neither ValueError nor TypeError.
BigInt == [t |-> "bigint", s |-> "", n |-> 0]

\* pandas.isna / pandas.notna on a scalar.
isna(v) == v.t \in {"nan", "none"}
notna(v) == ~isna(v)

\* Decimal text that float() accepts, with the value it yields.
NumericText == ("22" :> 22) @@ ("114" :> 114) @@ ("95" :> 95) @@ ("0" :> 0)

\* float(v): the value, or the exception raised.
float(v) ==
  CASE v.t \in {"num", "bool"} -> [exc |-> "", v |-> v.n]
    [] v.t = "str" ->
         IF v.s \in DOMAIN NumericText
         THEN [exc |-> "", v |-> NumericText[v.s]]
         ELSE [exc |-> "ValueError", v |-> 0]
    [] v.t = "bigint" -> [exc |-> "OverflowError", v |-> 0]
    [] OTHER -> [exc |-> "TypeError", v |-> 0]

\* str(v) as a Python value.
str(v) ==
  CASE v.t = "str" -> v
    [] v.t = "num" -> PyStr(IF v.n = 24 THEN "24.0" ELSE "0.0")
    [] v.t = "bool" -> PyStr(IF v.n = 1 THEN "True" ELSE "False")
    [] v.t = "none" -> PyStr("None")
    [] OTHER -> PyStr("nan")

\* str.lower() on the texts the feeds use.
lower(s) ==
  CASE s = "Yes" -> "yes"
    [] s = "YES" -> "yes"
    [] s = "True" -> "true"
    [] s = "TRUE" -> "true"
    [] s = "No" -> "no"
    [] OTHER -> s

\* bool(v): Python truthiness.
bool(v) ==
  CASE v.t \in {"num", "bool"} -> v.n # 0
    [] v.t = "str" -> v.s # ""
    [] v.t = "none" -> FALSE
    [] OTHER -> TRUE

(***************************************************************************)
(* Column reconciliation.                                                  *)
(***************************************************************************)
Fields ==
  <<"name", "address", "location_detail", "lat", "lng", "public_use",
    "allowed_operators", "access_persons", "category", "service_hours",
    "brand", "model", "remark">>

FieldSet == {Fields[i] : i \in 1..Len(Fields)}

\* The optional free-text attributes, all read with an empty-string default.
OptText ==
  {"location_detail", "allowed_operators", "access_persons", "category",
   "brand", "model", "remark"}

column_map ==
  [f \in FieldSet |->
    CASE f = "name" -> <<"AED Name", "Name", "AEDName", "aed_name">>
      [] f = "address" -> <<"AED Address", "Address", "AEDAddress", "aed_address">>
      [] f = "location_detail" ->
           <<"Detailed location of the AED installed", "Location Detail", "DetailedLocation">>
      [] f = "lat" ->
           <<"Location Google Map coordinate: latitude", "Latitude", "latitude", "lat">>
      [] f = "lng" ->
           <<"Location Google Map coordinate: longitude", "Longitude", "longitude", "lng">>
      [] f = "public_use" ->
           <<"Whether the AED can be used by anyone", "Public Use", "PublicUse">>
      [] f = "allowed_operators" ->
           <<"Person allowed to operate the AED", "Allowed Operators", "AllowedOperators">>
      [] f = "access_persons" ->
           <<"Person who has access to the AED", "Access Persons", "AccessPersons">>
      [] f = "category" ->
           <<"Ground level categories", "Category", "Categories", "ground_level_categories">>
      [] f = "service_hours" ->
           <<"Service Hour Remark", "Service Hours", "ServiceHours", "service_hour_remark">>
      [] f = "brand" -> <<"AED brand", "Brand", "aed_brand">>
      [] f = "model" -> <<"AED model", "Model", "aed_model">>
      [] OTHER -> <<"AED remark", "Remark", "aed_remark", "Remarks">>]

required_fields == {"name", "address", "lat", "lng"}

\* col in df.columns, for the ordered column index of a frame.
in_columns(col, columns) == \E k \in 1..Len(columns) : columns[k] = col

\* Mutant of column_matches_of: each field maps to the first column of the
\* header, in header order, that is one of its aliases.
column_matches_by_header_order(columns) ==
  LET alias(f, c) == \E i \in 1..Len(column_map[f]) : column_map[f][i] = c
      hit(f) == {k \in 1..Len(columns) : alias(f, columns[k])}
      first(f) == CHOOSE k \in hit(f) : \A j \in hit(f) : k <= j
  IN [f \in {g \in FieldSet : hit(g) # {}} |-> columns[first(f)]]

\* The matching loop: each field maps to the first of its aliases that is a
\* column of the frame; a field with no alias among the columns is left out.
column_matches_of(columns) ==
  LET hit(f) == {i \in 1..Len(column_map[f]) : in_columns(column_map[f][i], columns)}
      first(f) == CHOOSE i \in hit(f) : \A j \in hit(f) : i <= j
  IN [f \in {g \in FieldSet : hit(g) # {}} |-> column_map[f][first(f)]]

\* Mutant of map_csv_columns: only the coordinates are required.
map_csv_columns_lax(columns) ==
  LET m == column_matches_of(columns)
  IN [ok |-> {"lat", "lng"} \subseteq DOMAIN m, m |-> m]

\* map_csv_columns: the mapping, or failure (None) when a required field is
\* missing from it.
map_csv_columns(columns) ==
  LET m == column_matches_of(columns)
  IN [ok |-> required_fields \subseteq DOMAIN m, m |-> m]

(***************************************************************************)
(* Row normalisation.                                                      *)
(***************************************************************************)
\* dict.get on the column mapping, then the cell; the default when the field
\* is unmapped or the cell is missing.
safe_get_value(row, field, column_matches, default) ==
  IF field \notin DOMAIN column_matches
  THEN default
  ELSE LET val == row[column_matches[field]]
       IN IF isna(val) THEN default ELSE val

\* Mutant of coordinates_of: a row is skipped only when both coordinates are
\* out of range ("and" for "or" in the range check).
coordinates_both_out(row, column_matches) ==
  LET latc == row[column_matches["lat"]]
      lngc == row[column_matches["lng"]]
      lat == IF notna(latc) THEN float(latc) ELSE [exc |-> "", v |-> 0]
      lng == IF notna(lngc) THEN float(lngc) ELSE [exc |-> "", v |-> 0]
      caught(e) == e \in {"ValueError", "TypeError"}
      no(res) == [res |-> res, lat |-> 0, lng |-> 0]
  IN IF lat.exc # "" THEN no(IF caught(lat.exc) THEN "none" ELSE "raise")
     ELSE IF lng.exc # "" THEN no(IF caught(lng.exc) THEN "none" ELSE "raise")
     ELSE IF ~(-90 <= lat.v /\ lat.v <= 90) /\ ~(-180 <= lng.v /\ lng.v <= 180)
          THEN no("none")
          ELSE [res |-> "ok", lat |-> lat.v, lng |-> lng.v]

\* Mutant of coordinates_of: a missing coordinate makes the row skipped
\* instead of becoming 0.0.
coordinates_missing_skipped(row, column_matches) ==
  LET latc == row[column_matches["lat"]]
      lngc == row[column_matches["lng"]]
      lat == float(latc)
      lng == float(lngc)
      caught(e) == e \in {"ValueError", "TypeError"}
      no(res) == [res |-> res, lat |-> 0, lng |-> 0]
  IN IF isna(latc) \/ isna(lngc) THEN no("none")
     ELSE IF lat.exc # "" THEN no(IF caught(lat.exc) THEN "none" ELSE "raise")
     ELSE IF lng.exc # "" THEN no(IF caught(lng.exc) THEN "none" ELSE "raise")
     ELSE IF ~(-90 <= lat.v /\ lat.v <= 90) \/ ~(-180 <= lng.v /\ lng.v <= 180)
          THEN no("none")
          ELSE [res |-> "ok", lat |-> lat.v, lng |-> lng.v]

\* The coordinate step shared by the three loops: a missing cell becomes 0.0,
\* anything else goes through float(); then the range check.  res is "ok"
\* (with lat, lng), "none" (the row is to be skipped: out of range, or float()
\* raised ValueError or TypeError) or "raise" (another exception leaves the
\* step).
coordinates_of(row, column_matches) ==
  LET latc == row[column_matches["lat"]]
      lngc == row[column_matches["lng"]]
      lat == IF notna(latc) THEN float(latc) ELSE [exc |-> "", v |-> 0]
      lng == IF notna(lngc) THEN float(lngc) ELSE [exc |-> "", v |-> 0]
      caught(e) == e \in {"ValueError", "TypeError"}
      no(res) == [res |-> res, lat |-> 0, lng |-> 0]
  IN IF lat.exc # "" THEN no(IF caught(lat.exc) THEN "none" ELSE "raise")
     ELSE IF lng.exc # "" THEN no(IF caught(lng.exc) THEN "none" ELSE "raise")
     ELSE IF ~(-90 <= lat.v /\ lat.v <= 90) \/ ~(-180 <= lng.v /\ lng.v <= 180)
          THEN no("none")
          ELSE [res |-> "ok", lat |-> lat.v, lng |-> lng.v]

\* process_coordinates of the refresh service.
process_coordinates(row, column_matches) ==
  IF "lat" \notin DOMAIN column_matches \/ "lng" \notin DOMAIN column_matches
  THEN [res |-> "none", lat |-> 0, lng |-> 0]
  ELSE coordinates_of(row, column_matches)

\* The coordinate block of the refresh endpoint's task.
task_coordinates(row, column_matches) == coordinates_of(row, column_matches)

\* The coordinate block of the startup load.
startup_coordinates(row, column_matches) == coordinates_of(row, column_matches)

\* AEDModel(...): the draft record of one feed row.  src is the row's index
\* in the frame; id is assigned by the store when the draft is flushed.
AEDModel(row, column_matches, index, lat, lng, public_use, service_hours) ==
  [id |-> 0,
   src |-> index,
   name |-> safe_get_value(row, "name", column_matches, PyStr("Unknown")),
   address |-> safe_get_value(row, "address", column_matches, PyStr("")),
   latitude |-> lat,
   longitude |-> lng,
   public_use |-> public_use,
   service_hours |-> service_hours,
   text |-> [f \in OptText |-> safe_get_value(row, f, column_matches, PyStr(""))],
   is_flagged |-> FALSE,
   flag_reason |-> None,
   flagged_at |-> None]

NoDraft ==
  [id |-> 0, src |-> 0, name |-> None, address |-> None, latitude |-> 0,
   longitude |-> 0, public_use |-> FALSE, service_hours |-> None,
   text |-> [f \in OptText |-> None],
   is_flagged |-> FALSE, flag_reason |-> None, flagged_at |-> None]

Accepted(draft) == [outcome |-> "accepted", draft |-> draft]
Skipped == [outcome |-> "skipped", draft |-> NoDraft]
Errored == [outcome |-> "errored", draft |-> NoDraft]

\* public_use of the refresh service and of the refresh task.
parse_public_use(public_use_val) ==
  IF public_use_val.t = "str"
  THEN lower(public_use_val.s) \in {"yes", "true", "1"}
  ELSE bool(public_use_val)

\* public_use of the startup load.
startup_public_use(public_use_val) ==
  IF public_use_val.t = "str" THEN public_use_val.s = "Yes" ELSE bool(public_use_val)

\* service_hours of the refresh service.
service_service_hours(row, column_matches) ==
  LET service_hours == safe_get_value(row, "service_hours", column_matches, PyStr(""))
  IN IF ~isna(service_hours) THEN str(service_hours) ELSE service_hours

\* service_hours of the refresh task.
task_service_hours(row, column_matches) ==
  LET service_hours == safe_get_value(row, "service_hours", column_matches, None)
  IN IF isna(service_hours) THEN PyStr("") ELSE str(service_hours)

\* service_hours of the startup load.
startup_service_hours(row, column_matches) ==
  LET service_hours == safe_get_value(row, "service_hours", column_matches, None)
  IN IF isna(service_hours) THEN None ELSE str(service_hours)

\* One iteration of process_and_insert_data's loop up to the draft.
normalize_service(row, column_matches, index) ==
  LET c == process_coordinates(row, column_matches)
  IN CASE c.res = "raise" -> Errored
       [] c.res = "none" -> Skipped
       [] OTHER ->
            Accepted(AEDModel(row, column_matches, index, c.lat, c.lng,
              parse_public_use(safe_get_value(row, "public_use", column_matches, PyStr("No"))),
              service_service_hours(row, column_matches)))

\* One iteration of the refresh task's loop up to the draft.
normalize_task(row, column_matches, index) ==
  LET c == task_coordinates(row, column_matches)
  IN CASE c.res = "raise" -> Errored
       [] c.res = "none" -> Skipped
       [] OTHER ->
            Accepted(AEDModel(row, column_matches, index, c.lat, c.lng,
              parse_public_use(safe_get_value(row, "public_use", column_matches, PyStr("No"))),
              task_service_hours(row, column_matches)))

\* One iteration of the startup load's loop up to the draft.
normalize_startup(row, column_matches, index) ==
  LET c == startup_coordinates(row, column_matches)
  IN CASE c.res = "raise" -> Errored
       [] c.res = "none" -> Skipped
       [] OTHER ->
            Accepted(AEDModel(row, column_matches, index, c.lat, c.lng,
              startup_public_use(safe_get_value(row, "public_use", column_matches, PyStr("No"))),
              startup_service_hours(row, column_matches)))

normalize(path, row, column_matches, index) ==
  CASE path = "service" -> normalize_service(row, column_matches, index)
    [] path = "task" -> normalize_task(row, column_matches, index)
    [] OTHER -> normalize_startup(row, column_matches, index)

(***************************************************************************)
(* The feeds the external source may serve.                                *)
(***************************************************************************)
\* Cells of one row by canonical field; every text column shares one cell.
RowKind(lat, lng, public_use, service_hours, txt) ==
  [f \in FieldSet |->
    CASE f = "lat" -> lat
      [] f = "lng" -> lng
      [] f = "public_use" -> public_use
      [] f = "service_hours" -> service_hours
      [] OTHER -> txt]

RowKinds ==
  { \* a complete row
    RowKind(PyNum(22), PyNum(114), PyStr("Yes"), PyStr("24h"), PyStr("Zoll")),
    \* latitude missing, lower-case flag, service hours and texts missing
    RowKind(NaN, PyNum(114), PyStr("true"), NaN, NaN),
    \* latitude out of range
    RowKind(PyNum(95), PyNum(114), PyStr("No"), PyStr("24h"), PyStr("Zoll")),
    \* latitude an integer beyond the float range
    RowKind(BigInt, PyNum(114), PyStr("Yes"), PyStr("24h"), PyStr("Zoll")) }

\* Cells for the feeds of a single row: coordinates on and beyond the range
\* limits, missing, as text, not numeric; flags in several spellings and
\* types; service hours and texts present, missing, numeric.
LatCells ==
  {NaN, PyNum(22), PyStr("22"), PyNum(90), PyNum(-90), PyNum(91), PyNum(-91),
   PyStr("abc"), BigInt}
LngCells ==
  {NaN, PyNum(114), PyNum(180), PyNum(-180), PyNum(181), PyNum(-181), PyStr("abc")}
FlagCells ==
  {NaN, PyStr("Yes"), PyStr("yes"), PyStr("YES"), PyStr("true"), PyStr("1"),
   PyStr("No"), PyStr("maybe"), PyBool(TRUE), PyBool(FALSE)}
HoursCells == {NaN, PyStr("24h"), PyNum(24)}
TextCells == {NaN, PyStr("Zoll")}

SingleRows ==
  {RowKind(lat, lng, PyStr("Yes"), PyStr("24h"), PyStr("Zoll")) :
     lat \in LatCells, lng \in LngCells}
  \cup
  {RowKind(PyNum(22), PyNum(114), flag, hours, txt) :
     flag \in FlagCells, hours \in HoursCells, txt \in TextCells}

\* The field a column name is an alias of; a column that is no alias of any
\* field stands for itself.
FieldOfColumn(col) ==
  IF \E f \in FieldSet : \E i \in 1..Len(column_map[f]) : column_map[f][i] = col
  THEN CHOOSE f \in FieldSet : \E i \in 1..Len(column_map[f]) : column_map[f][i] = col
  ELSE col

Range(s) == {s[i] : i \in 1..Len(s)}

Headers ==
  { <<"AED Name", "AED Address", "Latitude", "Longitude", "Public Use",
      "Service Hours", "Brand">>,
    <<"Name", "Address", "lat", "lng">>,
    <<"AED Name", "AED Address", "Longitude", "Public Use">> }

\* Headers for the column matching: up to two columns out of aliases of
\* "name" and a column that is no alias, before or after the other required
\* columns, with or without a latitude or an address column.
NameColumns == {"AED Name", "Name", "aed_name", "Station"}

OtherColumns ==
  { <<"Address", "lat", "lng">>, <<"Address", "lng">>, <<"lat", "lng">>,
    <<"aed_address", "AED Address", "latitude", "Latitude", "lng", "Remarks", "Remark">> }

AliasHeaders ==
  LET lead == {<<>>} \cup {<<a>> : a \in NameColumns}
                \cup {p \in {<<a, b>> : a \in NameColumns, b \in NameColumns} : p[1] # p[2]}
  IN UNION {{l \o o, o \o l} : l \in lead, o \in OtherColumns}

SeqsUpTo(S, n) == UNION {[1..k -> S] : k \in 0..n}

\* A frame: the columns and, per row, the cell of each column.
Frame(h, ks) ==
  [columns |-> h,
   rows |-> [i \in DOMAIN ks |->
              [c \in Range(h) |->
                 IF FieldOfColumn(c) \in FieldSet THEN ks[i][FieldOfColumn(c)]
                 ELSE PyStr("Zoll")]]]

\* Every feed of up to MaxRows rows of the row kinds, every feed of one
\* row of the wider cell sets, and a feed of one row under every header of the
\* column matching.
Feeds ==
  {Frame(h, ks) : h \in Headers, ks \in SeqsUpTo(RowKinds, MaxRows)}
  \cup {Frame(h, <<k>>) : h \in Headers, k \in SingleRows}
  \cup {Frame(h, <<RowKind(PyNum(22), PyNum(114), PyStr("Yes"), PyStr("24h"), PyStr("Zoll"))>>) :
           h \in AliasHeaders}

(***************************************************************************)
(* State.                                                                  *)
(***************************************************************************)
\* The ingestion runs that may be in flight: each is one call of
\* update_aed_database, of _refresh_data_task or of startup_event, with a
\* session of its own.
Procs == {"w1", "w2"}

VARIABLES
  feed,      \* what the external source serves (unchanged during a behaviour)
  db,        \* the committed rows of table aeds
  runs,      \* ingestion runs started so far
  pc,        \* pc[p]: where run p stands
  job,       \* job[p]: the local variables of run p
  txn,       \* txn[p]: the uncommitted work of p's session
  hist,      \* hist[p]: what happened in run p (history, read by the properties only)
  observed,  \* the last result of the concurrent reader's query
  reports,   \* the committed rows of table aed_reports
  report_seq,\* the last id the sequence of aed_reports.id gave out
  now,       \* the clock (datetime.now()), in ticks
  req,       \* the request in flight between two of its statements
  resp,      \* the response to the last API request
  request_history, \* rate_limiter.request_history: client -> times of its requests
  request_log      \* every request the middleware has seen, in order (history)

\* The state of the report and query endpoints.
apivars == <<reports, report_seq, now, req, resp, request_history, request_log>>

vars == <<feed, db, runs, pc, job, txn, hist, observed, apivars>>

NoMatches == [f \in {} |-> ""]

Job0 ==
  [path |-> "none", run |-> 0, column_matches |-> NoMatches, idx |-> 0,
   aeds_to_add |-> <<>>, success_count |-> 0, error_count |-> 0,
   skipped_rows |-> 0, count_before |-> 0, count_after |-> 0, status |-> ""]

\* delset: ids of the rows the session's DELETE removed; inserted: the
\* rows its flushes wrote; failed: a flush raised and no rollback() followed;
\* waiting: ids of the rows its DELETE found and waits to lock.
Txn0 == [delset |-> {}, inserted |-> {}, failed |-> FALSE, waiting |-> {}]

\* before: the committed rows when the run started; outcome: how the run
\* ended; faults: the failures injected from outside (network, CSV text,
\* database); rows: the outcome of each row processed, in order.
Hist0 == [before |-> {}, outcome |-> "", faults |-> {}, rows |-> <<>>]

NotRead == [read |-> FALSE, rows |-> {}]

\* No request is in flight between two of its statements.
NoReq == [stage |-> "idle", aed_id |-> 0, report_type |-> "", current_time |-> 0]

\* The response of handler op with status code: args are the request's
\* parameters and data the rows of the body (query endpoints);
\* spatial_queries counts the spatial statements the request sent to the
\* store, and fault is the failure it met (history).
Response(op, code) ==
  [op |-> op, code |-> code, args |-> <<>>, data |-> <<>>,
   spatial_queries |-> 0, fault |-> ""]

\* No request was answered yet.
NoResp == Response("", 0)

\* RateLimiter.__init__: self.request_history = {}
NoHistory == [ip \in {} |-> <<>>]

\* The tables are empty and nothing runs.
InitStore ==
  /\ db = {}
  /\ runs = 0
  /\ pc = [p \in Procs |-> "idle"]
  /\ job = [p \in Procs |-> Job0]
  /\ txn = [p \in Procs |-> Txn0]
  /\ hist = [p \in Procs |-> Hist0]
  /\ observed = NotRead
  /\ reports = {}
  /\ report_seq = 0
  /\ now = 0
  /\ req = NoReq
  /\ resp = NoResp
  /\ request_history = NoHistory
  /\ request_log = <<>>

Init ==
  /\ feed \in Feeds
  /\ InitStore

(***************************************************************************)
(* The store.                                                              *)
(***************************************************************************)
\* The id the store's sequence gives a row: fresh for every run and row.
NewId(run, src) == (run - 1) * MaxRows + src

\* INSERT of a batch of drafts: each gets its id.
stored(run, drafts) ==
  {[drafts[i] EXCEPT !.id = NewId(run, drafts[i].src)] : i \in 1..Len(drafts)}

\* Mutant of deleted_by: the delete statement is missing.
deleted_nothing(t, rows) == t

\* db.query(AEDModel).delete(): every row the statement sees is deleted in
\* the session's transaction.
deleted_by(t, rows) == [t EXCEPT !.delset = @ \cup {r.id : r \in rows}]

\* db.add_all(batch); db.flush(): the INSERTs run in the session's transaction.
flushed(t, run, drafts) == [t EXCEPT !.inserted = @ \cup stored(run, drafts)]

\* COMMIT: the transaction's deletes and inserts become the committed rows.
committed(rows, t) == {r \in rows : r.id \notin t.delset} \cup t.inserted

\* Mutant of rolled_back: the handler commits what the transaction did so far.
rolled_back_applied(rows, t) == {r \in rows : r.id \notin t.delset} \cup t.inserted

\* ROLLBACK: the transaction's work is dropped.
rolled_back(rows, t) == rows

\* SELECT count(id) FROM aeds, as the session sees it.
count_of(rows, t) == Cardinality(committed(rows, t))

(***************************************************************************)
(* update_aed_database and _refresh_data_task.                             *)
(***************************************************************************)
Refreshing(p) == job[p].path \in {"service", "task"}

\* The run ends: return (or fall out of the function) through finally: db.close().
Finish(p, outcome, status, faults) ==
  /\ pc' = [pc EXCEPT ![p] = "done"]
  /\ txn' = [txn EXCEPT ![p] = Txn0]
  /\ hist' = [hist EXCEPT ![p].outcome = outcome, ![p].faults = @ \cup faults]
  /\ job' = [job EXCEPT ![p].status = IF job[p].path = "service" THEN status ELSE ""]

\* A refresh is triggered.
Start(p, path) ==
  /\ pc[p] \in {"idle", "done"}
  /\ runs < MaxRuns
  /\ runs' = runs + 1
  /\ pc' = [pc EXCEPT ![p] = IF path = "startup" THEN "su_count" ELSE "download"]
  /\ job' = [job EXCEPT ![p] =
               [Job0 EXCEPT !.path = path, !.run = runs + 1,
                            !.status = IF path = "service" THEN "failed" ELSE ""]]
  /\ txn' = [txn EXCEPT ![p] = Txn0]
  /\ hist' = [hist EXCEPT ![p] = [Hist0 EXCEPT !.before = db]]
  /\ observed' = NotRead
  /\ UNCHANGED <<apivars, feed, db>>

\* Mutant of Download: the table is cleared before the feed is fetched.
DownloadAfterClear(p) ==
  /\ pc[p] = "download"
  /\ db' = {}
  /\ \/ /\ pc' = [pc EXCEPT ![p] = "parse"]
        /\ UNCHANGED <<job, txn, hist>>
     \/ Finish(p, "aborted", "failed", {"fetch"})
  /\ UNCHANGED <<apivars, feed, runs, observed>>

\* requests.get(url, timeout=30); raise_for_status().
Download(p) ==
  /\ pc[p] = "download"
  /\ \/ /\ pc' = [pc EXCEPT ![p] = "parse"]
        /\ UNCHANGED <<job, txn, hist>>
     \/ Finish(p, "aborted", "failed", {"fetch"})
  /\ UNCHANGED <<apivars, feed, db, runs, observed>>

\* pd.read_csv(response.text).
Parse(p) ==
  /\ pc[p] = "parse"
  /\ \/ /\ pc' = [pc EXCEPT ![p] = "map"]
        /\ UNCHANGED <<job, txn, hist>>
     \/ Finish(p, "aborted", "failed", {"parse"})
  /\ UNCHANGED <<apivars, feed, db, runs, observed>>

\* The column mapping and its required-field check.
MapColumns(p) ==
  /\ pc[p] = "map"
  /\ LET m == map_csv_columns(feed.columns)
     IN IF m.ok
        THEN /\ pc' = [pc EXCEPT ![p] = "count_before"]
             /\ job' = [job EXCEPT ![p].column_matches = m.m]
             /\ UNCHANGED <<txn, hist>>
        ELSE Finish(p, "aborted", "failed", {})
  /\ UNCHANGED <<apivars, feed, db, runs, observed>>

\* The schema statement (no effect on the rows), then
\* count_before = db.query(func.count(AEDModel.id)).scalar().
CountBefore(p) ==
  /\ pc[p] = "count_before"
  /\ \/ /\ pc' = [pc EXCEPT ![p] = "begin"]
        /\ job' = [job EXCEPT ![p].count_before = count_of(db, txn[p])]
        /\ UNCHANGED <<txn, hist>>
     \/ Finish(p, "aborted", "failed", {"count_before"})
  /\ UNCHANGED <<apivars, feed, db, runs, observed>>

\* db.begin(): an exception here is caught by the outer handler.
Begin(p) ==
  /\ pc[p] = "begin"
  /\ \/ /\ pc' = [pc EXCEPT ![p] = "delete"]
        /\ UNCHANGED <<job, txn, hist>>
     \/ Finish(p, "aborted", "failed", {"begin"})
  /\ UNCHANGED <<apivars, feed, db, runs, observed>>

\* except Exception as transaction_error: rollback.
Rollback(p, faults) ==
  /\ db' = rolled_back(db, txn[p])
  /\ Finish(p, "rolled_back", "failed", faults)

\* Mutant of Delete: the delete is committed on its own, outside the
\* transaction of the inserts.
DeleteCommitted(p) ==
  /\ pc[p] = "delete"
  /\ \/ /\ db' = {}
        /\ pc' = [pc EXCEPT ![p] = "rows"]
        /\ job' = [job EXCEPT ![p].idx = 1]
        /\ UNCHANGED <<txn, hist>>
     \/ Rollback(p, {"delete"})
  /\ UNCHANGED <<apivars, feed, runs, observed>>

\* Some row of the table is locked by the DELETE of another session's open
\* transaction.
RowsLocked(p) ==
  \E q \in Procs \ {p} : txn[q].delset \cap {r.id : r \in db} # {}

\* db.query(AEDModel).delete(), no row being locked by another session.
Delete(p) ==
  /\ pc[p] = "delete"
  /\ ~RowsLocked(p)
  /\ \/ /\ txn' = [txn EXCEPT ![p] = deleted_by(@, db)]
        /\ pc' = [pc EXCEPT ![p] = "rows"]
        /\ job' = [job EXCEPT ![p].idx = 1]
        /\ UNCHANGED <<db, hist>>
     \/ Rollback(p, {"delete"})
  /\ UNCHANGED <<apivars, feed, runs, observed>>

\* db.query(AEDModel).delete() finds rows that another session's DELETE has
\* locked: the statement has read the committed rows and waits.
DeleteWaits(p) ==
  /\ pc[p] = "delete"
  /\ RowsLocked(p)
  /\ txn' = [txn EXCEPT ![p].waiting = {r.id : r \in db}]
  /\ pc' = [pc EXCEPT ![p] = "delete_wait"]
  /\ UNCHANGED <<apivars, feed, db, runs, job, hist, observed>>

\* The other transaction has ended: the statement deletes those of its rows
\* that are still there (none if the other session committed its delete,
\* and never the rows that session inserted, which the statement did not
\* read).
DeleteResumes(p) ==
  /\ pc[p] = "delete_wait"
  /\ \A q \in Procs \ {p} : txn[q].delset \cap txn[p].waiting = {}
  /\ \/ /\ txn' = [txn EXCEPT ![p] =
                      deleted_by([@ EXCEPT !.waiting = {}],
                                 {r \in db : r.id \in txn[p].waiting})]
        /\ pc' = [pc EXCEPT ![p] = "rows"]
        /\ job' = [job EXCEPT ![p].idx = 1]
        /\ UNCHANGED <<db, hist>>
     \/ Rollback(p, {"delete"})
  /\ UNCHANGED <<apivars, feed, runs, observed>>

\* One iteration of the row loop of process_and_insert_data (or of the
\* task's loop): classify the row; an accepted draft joins the batch and is
\* counted; a full batch is flushed, and a flush that raises is caught by the
\* row's own handler, which counts an error and goes on.
ProcessRow(p) ==
  /\ pc[p] = "rows"
  /\ Refreshing(p)
  /\ job[p].idx <= Len(feed.rows)
  /\ LET j == job[p]
         r == normalize(j.path, feed.rows[j.idx], j.column_matches, j.idx)
         batch == Append(j.aeds_to_add, r.draft)
         seen(o) == [hist EXCEPT ![p].rows = Append(@, o)]
     IN CASE r.outcome = "skipped" ->
               /\ job' = [job EXCEPT ![p].skipped_rows = @ + 1, ![p].idx = @ + 1]
               /\ hist' = seen("skipped")
               /\ UNCHANGED txn
          [] r.outcome = "errored" ->
               /\ job' = [job EXCEPT ![p].error_count = @ + 1, ![p].idx = @ + 1]
               /\ hist' = seen("errored")
               /\ UNCHANGED txn
          [] OTHER ->
               IF Len(batch) < batch_size
               THEN /\ job' = [job EXCEPT ![p].aeds_to_add = batch,
                                          ![p].success_count = @ + 1,
                                          ![p].idx = @ + 1]
                    /\ hist' = seen("accepted")
                    /\ UNCHANGED txn
               ELSE \E ok \in BOOLEAN :
                      IF ok /\ ~txn[p].failed
                      THEN /\ txn' = [txn EXCEPT ![p] = flushed(@, j.run, batch)]
                           /\ job' = [job EXCEPT ![p].aeds_to_add = <<>>,
                                                 ![p].success_count = @ + 1,
                                                 ![p].idx = @ + 1]
                           /\ hist' = seen("accepted")
                      ELSE /\ txn' = [txn EXCEPT ![p].failed = TRUE]
                           /\ job' = [job EXCEPT ![p].aeds_to_add = batch,
                                                 ![p].success_count = @ + 1,
                                                 ![p].error_count = @ + 1,
                                                 ![p].idx = @ + 1]
                           /\ hist' = [seen("accepted") EXCEPT ![p].faults =
                                         IF txn[p].failed THEN @ ELSE @ \cup {"row_flush"}]
  /\ UNCHANGED <<apivars, feed, db, runs, pc, observed>>

\* After the loop: the remaining drafts are flushed.  An exception here leaves
\* process_and_insert_data and reaches the transaction's handler.
FinalFlush(p) ==
  /\ pc[p] = "rows"
  /\ Refreshing(p)
  /\ job[p].idx > Len(feed.rows)
  /\ IF job[p].aeds_to_add = <<>>
     THEN /\ pc' = [pc EXCEPT ![p] = "commit"]
          /\ UNCHANGED <<db, job, txn, hist>>
     ELSE \E ok \in BOOLEAN :
            IF ok /\ ~txn[p].failed
            THEN /\ txn' = [txn EXCEPT ![p] = flushed(@, job[p].run, job[p].aeds_to_add)]
                 /\ pc' = [pc EXCEPT ![p] = "commit"]
                 /\ UNCHANGED <<db, job, hist>>
            ELSE Rollback(p, IF txn[p].failed THEN {} ELSE {"final_flush"})
  /\ UNCHANGED <<apivars, feed, runs, observed>>

\* transaction.commit()
Commit(p) ==
  /\ pc[p] = "commit"
  /\ \E ok \in BOOLEAN :
       IF ok /\ ~txn[p].failed
       THEN /\ db' = committed(db, txn[p])
            /\ txn' = [txn EXCEPT ![p] = Txn0]
            /\ pc' = [pc EXCEPT ![p] = "count_after"]
            /\ hist' = [hist EXCEPT ![p].outcome = "committed"]
            /\ UNCHANGED job
       ELSE Rollback(p, IF txn[p].failed THEN {} ELSE {"commit"})
  /\ UNCHANGED <<apivars, feed, runs, observed>>

\* count_after and the summary.  The query runs inside the transaction's try
\* block: if it raises, the handler calls rollback() on the finished
\* transaction and the result stays "failed".
CountAfter(p) ==
  /\ pc[p] = "count_after"
  /\ \/ /\ job' = [job EXCEPT ![p].count_after = count_of(db, txn[p]),
                              ![p].status = IF job[p].path = "service" THEN "success" ELSE ""]
        /\ pc' = [pc EXCEPT ![p] = "done"]
        /\ UNCHANGED <<txn, hist>>
     \/ /\ pc' = [pc EXCEPT ![p] = "done"]
        /\ txn' = [txn EXCEPT ![p] = Txn0]
        /\ hist' = [hist EXCEPT ![p].faults = @ \cup {"count_after"}]
        /\ UNCHANGED job
  /\ UNCHANGED <<apivars, feed, db, runs, observed>>

(***************************************************************************)
(* startup_event: the initial load.  The session has no explicit           *)
(* transaction and no delete; added drafts stay pending in the session     *)
(* (job[p].aeds_to_add) until a commit flushes and commits them.           *)
(***************************************************************************)
\* db.commit() of the startup session: the pending drafts are inserted and
\* committed.
startup_committed(rows, t, run, pending) == committed(rows, flushed(t, run, pending))

\* count = db.query(func.count(AEDModel.id)).scalar(); if count == 0: ...
StartupCount(p) ==
  /\ pc[p] = "su_count"
  /\ \/ IF count_of(db, txn[p]) = 0
        THEN /\ pc' = [pc EXCEPT ![p] = "su_download"]
             /\ UNCHANGED <<job, txn, hist>>
        ELSE Finish(p, "not_needed", "", {})
     \/ Finish(p, "aborted", "", {"count_before"})
  /\ UNCHANGED <<apivars, feed, db, runs, observed>>

\* requests.get(url, headers=headers); status_code != 200 returns, an
\* exception is caught by the outer handler (rollback of nothing).
StartupDownload(p) ==
  /\ pc[p] = "su_download"
  /\ \/ /\ pc' = [pc EXCEPT ![p] = "su_parse"]
        /\ UNCHANGED <<job, txn, hist>>
     \/ Finish(p, "aborted", "", {"fetch"})
  /\ UNCHANGED <<apivars, feed, db, runs, observed>>

\* pd.read_csv and the column mapping.  A parse error is caught by the inner
\* handler (rollback), after which the last commit still runs; a missing
\* required field returns.
StartupParse(p) ==
  /\ pc[p] = "su_parse"
  /\ \/ LET m == map_csv_columns(feed.columns)
        IN IF m.ok
           THEN /\ pc' = [pc EXCEPT ![p] = "rows"]
                /\ job' = [job EXCEPT ![p].column_matches = m.m, ![p].idx = 1]
                /\ UNCHANGED <<txn, hist>>
           ELSE Finish(p, "aborted", "", {})
     \/ /\ pc' = [pc EXCEPT ![p] = "su_last_commit"]
        /\ hist' = [hist EXCEPT ![p].faults = @ \cup {"parse"}]
        /\ UNCHANGED <<job, txn>>
  /\ UNCHANGED <<apivars, feed, db, runs, observed>>

\* One iteration of the startup loop: db.add(aed); success_count += 1; every
\* batch_size successes db.commit().  A commit that raises is caught by the
\* row's handler.
StartupRow(p) ==
  /\ pc[p] = "rows"
  /\ job[p].path = "startup"
  /\ job[p].idx <= Len(feed.rows)
  /\ LET j == job[p]
         r == normalize(j.path, feed.rows[j.idx], j.column_matches, j.idx)
         pending == Append(j.aeds_to_add, r.draft)
         seen(o) == [hist EXCEPT ![p].rows = Append(@, o)]
     IN CASE r.outcome = "skipped" ->
               /\ job' = [job EXCEPT ![p].skipped_rows = @ + 1, ![p].idx = @ + 1]
               /\ hist' = seen("skipped")
               /\ UNCHANGED <<db, txn>>
          [] r.outcome = "errored" ->
               /\ job' = [job EXCEPT ![p].error_count = @ + 1, ![p].idx = @ + 1]
               /\ hist' = seen("errored")
               /\ UNCHANGED <<db, txn>>
          [] OTHER ->
               IF (j.success_count + 1) % batch_size # 0
               THEN /\ job' = [job EXCEPT ![p].aeds_to_add = pending,
                                          ![p].success_count = @ + 1,
                                          ![p].idx = @ + 1]
                    /\ hist' = seen("accepted")
                    /\ UNCHANGED <<db, txn>>
               ELSE \E ok \in BOOLEAN :
                      IF ok /\ ~txn[p].failed
                      THEN /\ db' = startup_committed(db, txn[p], j.run, pending)
                           /\ job' = [job EXCEPT ![p].aeds_to_add = <<>>,
                                                 ![p].success_count = @ + 1,
                                                 ![p].idx = @ + 1]
                           /\ hist' = seen("accepted")
                           /\ UNCHANGED txn
                      ELSE /\ txn' = [txn EXCEPT ![p].failed = TRUE]
                           /\ job' = [job EXCEPT ![p].aeds_to_add = pending,
                                                 ![p].success_count = @ + 1,
                                                 ![p].error_count = @ + 1,
                                                 ![p].idx = @ + 1]
                           /\ hist' = [seen("accepted") EXCEPT ![p].faults =
                                         IF txn[p].failed THEN @ ELSE @ \cup {"row_flush"}]
                           /\ UNCHANGED db
  /\ UNCHANGED <<apivars, feed, runs, pc, observed>>

\* The commit after the loop; if it raises, the inner handler rolls back
\* (the pending drafts are dropped, the session is usable again).
StartupFinalCommit(p) ==
  /\ pc[p] = "rows"
  /\ job[p].path = "startup"
  /\ job[p].idx > Len(feed.rows)
  /\ \E ok \in BOOLEAN :
       IF ok /\ ~txn[p].failed
       THEN /\ db' = startup_committed(db, txn[p], job[p].run, job[p].aeds_to_add)
            /\ job' = [job EXCEPT ![p].aeds_to_add = <<>>]
            /\ UNCHANGED <<txn, hist>>
       ELSE /\ db' = rolled_back(db, txn[p])
            /\ job' = [job EXCEPT ![p].aeds_to_add = <<>>]
            /\ txn' = [txn EXCEPT ![p] = Txn0]
            /\ hist' = [hist EXCEPT ![p].faults =
                          IF txn[p].failed THEN @ ELSE @ \cup {"commit"}]
  /\ pc' = [pc EXCEPT ![p] = "su_last_commit"]
  /\ UNCHANGED <<apivars, feed, runs, observed>>

\* The second db.commit(), outside the inner try; the outer handler rolls back.
StartupLastCommit(p) ==
  /\ pc[p] = "su_last_commit"
  /\ \/ Finish(p, "loaded", "", {})
     \/ Finish(p, "aborted", "", {"last_commit"})
  /\ UNCHANGED <<apivars, feed, db, runs, observed>>

(***************************************************************************)
(* A concurrent reader: one SELECT over table aeds while a run is in       *)
(* flight.                                                                 *)
(***************************************************************************)
Read ==
  /\ \E p \in Procs : pc[p] \notin {"idle", "done"}
  /\ observed' = [read |-> TRUE, rows |-> db]
  /\ UNCHANGED <<apivars, feed, db, runs, pc, job, txn, hist>>

(***************************************************************************)
(* The report endpoints: report_aed_issue (POST /aeds/{aed_id}/report),    *)
(* create_report (POST /reports), update_report_status and delete_report.  *)
(* Each request has a session of its own; db.commit() flushes the          *)
(* session's INSERT and UPDATE statements and commits them together.  An   *)
(* UPDATE of a row that a transaction in flight has deleted waits for that *)
(* transaction to end; an UPDATE by primary key that matches no row makes  *)
(* the flush raise (StaleDataError), and the request's work is dropped.    *)
(***************************************************************************)
valid_report_types == {"damaged", "missing", "incorrect_info", "other"}
valid_statuses == {"pending", "investigating", "resolved", "rejected"}

\* What callers send: 0 and the ids of the first row of a first and of a
\* second run (no AED has them before that run commits, nor after the next
\* one does); a report type and a status in and outside the valid sets.
AedIdInputs == {0, 1, MaxRows + 1}
ReportTypeInputs == {"damaged", "vandalised"}
StatusInputs == {"resolved", "closed"}
ReportIdInputs == 0..MaxReports

\* datetime.now().isoformat(): the text of the clock's reading.
isoformat(t) == [t |-> "str", s |-> "isoformat", n |-> t]

\* AEDReportCreate.validate_report_type: the request model's validator; a
\* body that fails it is answered 422 before the handler runs.
validate_report_type(v) == v \in valid_report_types

\* validate_numeric_param(value, name, min_value=1) on an int.
validate_numeric_param(value, min_value) == value >= min_value

\* AEDReportModel(...)
AEDReportModel(id, aed_id, report_type, created_at) ==
  [id |-> id, aed_id |-> aed_id, report_type |-> report_type,
   created_at |-> created_at, status |-> "pending"]

\* The response to a request, and nothing else changes.
Answer(op, code) ==
  /\ resp' = Response(op, code)
  /\ UNCHANGED <<db, reports, report_seq, now>>

\* The response to a request that the handler's own input validation
\* turned down, and nothing else changes.
Rejected(op, code) ==
  /\ resp' = [Response(op, code) EXCEPT !.fault = "validation"]
  /\ UNCHANGED <<db, reports, report_seq, now>>

\* report_aed_issue up to the report's construction: the AED is looked up,
\* the clock is read, the report type is checked.
ReportAedIssueLookup(aed_id, report_type) ==
  /\ req.stage = "idle"
  /\ report_seq < MaxReports
  /\ now < MaxReports
  /\ IF ~validate_report_type(report_type)
     THEN Answer("report_aed_issue", 422) /\ UNCHANGED req
     ELSE IF ~\E a \in db : a.id = aed_id
     THEN Answer("report_aed_issue", 404) /\ UNCHANGED req
     ELSE IF report_type \notin valid_report_types
     THEN Answer("report_aed_issue", 400) /\ UNCHANGED req
     ELSE /\ req' = [stage |-> "found", aed_id |-> aed_id,
                     report_type |-> report_type, current_time |-> now + 1]
          /\ now' = now + 1
          /\ UNCHANGED <<db, reports, report_seq, resp>>
  /\ UNCHANGED <<request_history, request_log, feed, runs, pc, job, txn, hist, observed>>

\* The flag fields report_aed_issue sets on the AED it loaded.
flag_aed(a, report_type, current_time) ==
  [a EXCEPT !.is_flagged = TRUE,
            !.flag_reason = PyStr(report_type),
            !.flagged_at = isoformat(current_time)]

\* Mutant of ReportAedIssueCommit: the report is committed on its own,
\* before the flag update.
ReportAedIssueCommitReportFirst ==
  /\ req.stage = "found"
  /\ reports' = reports \cup
        {AEDReportModel(report_seq + 1, req.aed_id, req.report_type,
                        isoformat(req.current_time))}
  /\ report_seq' = report_seq + 1
  /\ resp' = Response("report_aed_issue", 500)
  /\ req' = NoReq
  /\ UNCHANGED <<request_history, request_log, feed, db, runs, pc, job, txn, hist, observed, now>>

\* report_aed_issue from the flag update to db.commit(): the INSERT of the
\* report and the UPDATE of the AED are flushed and committed together.
ReportAedIssueCommit ==
  /\ req.stage = "found"
  /\ \A p \in Procs : req.aed_id \notin txn[p].delset
  /\ \E ok \in BOOLEAN :
       IF ok /\ \E a \in db : a.id = req.aed_id
       THEN /\ db' = {IF a.id = req.aed_id
                      THEN flag_aed(a, req.report_type, req.current_time)
                      ELSE a : a \in db}
            /\ reports' = reports \cup
                  {AEDReportModel(report_seq + 1, req.aed_id, req.report_type,
                                  isoformat(req.current_time))}
            /\ report_seq' = report_seq + 1
            /\ resp' = Response("report_aed_issue", 200)
       ELSE /\ resp' = Response("report_aed_issue", 500)
            /\ UNCHANGED <<db, reports, report_seq>>
  /\ req' = NoReq
  /\ UNCHANGED <<request_history, request_log, feed, runs, pc, job, txn, hist, observed, now>>

\* create_report: the id is range-checked (the 400 raised inside the try
\* block is caught by its own "except Exception" and becomes a 500), the
\* report is added and committed.
CreateReport(aed_id, report_type) ==
  /\ report_seq < MaxReports
  /\ now < MaxReports
  /\ IF ~validate_report_type(report_type)
     THEN Answer("create_report", 422)
     ELSE IF ~validate_numeric_param(aed_id, 1)
     THEN Rejected("create_report", 500)
     ELSE \E ok \in BOOLEAN :
            IF ok
            THEN /\ reports' = reports \cup
                       {AEDReportModel(report_seq + 1, aed_id, report_type,
                                       isoformat(now + 1))}
                 /\ report_seq' = report_seq + 1
                 /\ now' = now + 1
                 /\ resp' = Response("create_report", 201)
                 /\ UNCHANGED db
            ELSE Answer("create_report", 500)
  /\ UNCHANGED <<request_history, request_log, feed, runs, pc, job, txn, hist, observed, req>>

\* Mutant of UpdateReportStatus: the status is stored as it was sent.
UpdateReportStatusUnchecked(report_id, status) ==
  /\ IF \E r \in reports : r.id = report_id
     THEN /\ reports' = {IF r.id = report_id THEN [r EXCEPT !.status = status] ELSE r :
                           r \in reports}
          /\ resp' = Response("update_report_status", 200)
          /\ UNCHANGED <<db, report_seq, now>>
     ELSE Answer("update_report_status", 404)
  /\ UNCHANGED <<request_history, request_log, feed, runs, pc, job, txn, hist, observed, req>>

\* update_report_status
UpdateReportStatus(report_id, status) ==
  /\ IF report_id <= 0
     THEN Answer("update_report_status", 422)
     ELSE IF ~validate_numeric_param(report_id, 1) \/ status \notin valid_statuses
     THEN Answer("update_report_status", 400)
     ELSE IF ~\E r \in reports : r.id = report_id
     THEN Answer("update_report_status", 404)
     ELSE \E ok \in BOOLEAN :
            IF ok
            THEN /\ reports' = {IF r.id = report_id THEN [r EXCEPT !.status = status]
                                ELSE r : r \in reports}
                 /\ resp' = Response("update_report_status", 200)
                 /\ UNCHANGED <<db, report_seq, now>>
            ELSE Answer("update_report_status", 500)
  /\ UNCHANGED <<request_history, request_log, feed, runs, pc, job, txn, hist, observed, req>>

\* delete_report
DeleteReport(report_id) ==
  /\ IF report_id <= 0
     THEN Answer("delete_report", 422)
     ELSE IF ~validate_numeric_param(report_id, 1)
     THEN Answer("delete_report", 400)
     ELSE IF ~\E r \in reports : r.id = report_id
     THEN Answer("delete_report", 404)
     ELSE \E ok \in BOOLEAN :
            IF ok
            THEN /\ reports' = {r \in reports : r.id # report_id}
                 /\ resp' = Response("delete_report", 204)
                 /\ UNCHANGED <<db, report_seq, now>>
            ELSE Answer("delete_report", 500)
  /\ UNCHANGED <<request_history, request_log, feed, runs, pc, job, txn, hist, observed, req>>

\* What callers send as start_date: nothing, an ISO date, another text.
DateInputs == {"", "2026-01-01", "yesterday"}

\* datetime.fromisoformat(text) returns (it raises ValueError otherwise).
fromisoformat_ok(text) == text \in {"2026-01-01"}

\* get_report_stats: the date filter is validated (the 400 raised inside the
\* try block is caught by the handler's own "except Exception" and becomes a
\* 500), then the reports are counted.
GetReportStats(start_date) ==
  /\ IF start_date # "" /\ ~fromisoformat_ok(start_date)
     THEN Rejected("get_report_stats", 500)
     ELSE \E ok \in BOOLEAN :
            IF ok
            THEN /\ resp' = [Response("get_report_stats", 200) EXCEPT
                               !.args = <<start_date>>,
                               !.data = <<Cardinality(reports)>>]
                 /\ UNCHANGED <<db, reports, report_seq, now>>
            ELSE Answer("get_report_stats", 500)
  /\ UNCHANGED <<request_history, request_log, feed, runs, pc, job, txn, hist, observed, req>>

(***************************************************************************)
(* The query endpoints: get_nearby_aeds, get_aeds_sorted_by_location and   *)
(* evaluate_aed_coverage.  Each sends spatial statements over table aeds   *)
(* to the store.  The store's geodesic functions are outside the source:   *)
(* ST_Distance stands for the ground distance in metres (111 km for each   *)
(* degree of latitude and of longitude between the points), and ST_DWithin *)
(* tests that same distance.  A radius is given in tenths of a kilometre.  *)
(***************************************************************************)
Abs(x) == IF x < 0 THEN -x ELSE x

\* geo_point = 'POINT(lng lat)' of a stored AED.
geo_point(a) == [lng |-> a.longitude, lat |-> a.latitude]

\* ST_SetSRID(ST_MakePoint(:lng, :lat), 4326)
ST_MakePoint(lng, lat) == [lng |-> lng, lat |-> lat]

ST_Distance(g, h) == 111000 * (Abs(g.lat - h.lat) + Abs(g.lng - h.lng))

\* ST_DWithin(g, h, :radius * 1000), the radius in tenths of a kilometre.
ST_DWithin(g, h, radius) == ST_Distance(g, h) <= radius * 100

\* A point the store's geography type takes without complaint.
InRange(lat, lng) == lat >= -90 /\ lat <= 90 /\ lng >= -180 /\ lng <= 180

\* The rows of the nearby statement's WHERE clause.
nearby_where(rows, lat, lng, radius, public_only) ==
  {a \in rows :
     /\ ST_DWithin(geo_point(a), ST_MakePoint(lng, lat), radius)
     /\ public_only => a.public_use = TRUE}

\* Mutant of order_by_distance_limit: the rows come in the store's own
\* order (by id), cut to the limit.
order_by_id_limit(rows, lat, lng, limit) ==
  LET n == IF limit < Cardinality(rows) THEN limit ELSE Cardinality(rows)
  IN {s \in [1..n -> rows] :
        /\ \A i \in 1..n : \A j \in 1..n : i < j => s[i].id < s[j].id
        /\ \A a \in rows : (\A i \in 1..n : s[i] # a) =>
                             \A i \in 1..n : s[i].id < a.id}

\* ORDER BY distance_km LIMIT :limit: every answer the store may give (rows
\* at equal distance come in any order).
order_by_distance_limit(rows, lat, lng, limit) ==
  LET q == ST_MakePoint(lng, lat)
      d(a) == ST_Distance(geo_point(a), q)
      n == IF limit < Cardinality(rows) THEN limit ELSE Cardinality(rows)
  IN {s \in [1..n -> rows] :
        /\ \A i \in 1..n : \A j \in 1..n : i < j => (s[i] # s[j] /\ d(s[i]) <= d(s[j]))
        /\ \A a \in rows : (\A i \in 1..n : s[i] # a) =>
                             \A i \in 1..n : d(s[i]) <= d(a)}

\* The rows of a response: id, public_use and distance (in metres) of each.
\* The SELECT list has no flag column, and AEDWithDistance(**aed_dict) fills
\* is_flagged, flag_reason and flagged_at with the defaults of class AED.
with_distance(s, lat, lng) ==
  [i \in DOMAIN s |->
     [id |-> s[i].id, public_use |-> s[i].public_use,
      distance |-> ST_Distance(geo_point(s[i]), ST_MakePoint(lng, lat)),
      is_flagged |-> FALSE, flag_reason |-> None, flagged_at |-> None]]

\* How the store may answer a spatial statement: with rows ("") or with an
\* error, a failed connection ("connection") or a failed statement
\* ("query").  A negative LIMIT or radius makes the statement fail; a point
\* outside the geography range is refused or taken, depending on the store.
StoreOutcomes(lat, lng, radius, limit) ==
  IF limit < 0 \/ radius < 0
  THEN {"connection", "query"}
  ELSE IF ~InRange(lat, lng)
  THEN {"connection", "query", ""}
  ELSE {"connection", ""}

\* get_nearby_aeds
GetNearbyAeds(lat, lng, radius, limit, public_only) ==
  /\ IF radius <= 0
     THEN resp' = [Response("get_nearby_aeds", 400) EXCEPT
                     !.args = <<lat, lng, radius, limit, public_only>>]
     ELSE \E fault \in StoreOutcomes(lat, lng, radius, limit) :
            IF fault = ""
            THEN \E s \in order_by_distance_limit(
                           nearby_where(db, lat, lng, radius, public_only), lat, lng, limit) :
                   resp' = [Response("get_nearby_aeds", 200) EXCEPT
                              !.args = <<lat, lng, radius, limit, public_only>>,
                              !.data = with_distance(s, lat, lng),
                              !.spatial_queries = 1]
            ELSE resp' = [Response("get_nearby_aeds", 500) EXCEPT
                            !.args = <<lat, lng, radius, limit, public_only>>,
                            !.spatial_queries = 1,
                            !.fault = fault]
  /\ UNCHANGED <<request_history, request_log, feed, db, runs, pc, job, txn, hist, observed, reports, report_seq, now, req>>

\* database_operational_exception_handler and database_exception_handler:
\* the status code for an error that leaves a handler.
database_exception_handler(fault) == IF fault = "connection" THEN 503 ELSE 500

\* get_aeds_sorted_by_location: no check and no try block; an error of the
\* store reaches the application's exception handlers.
GetAedsSortedByLocation(lat, lng, limit) ==
  /\ \E fault \in StoreOutcomes(lat, lng, 0, limit) :
       IF fault = ""
       THEN \E s \in order_by_distance_limit(db, lat, lng, limit) :
              resp' = [Response("get_aeds_sorted_by_location", 200) EXCEPT
                         !.args = <<lat, lng, limit>>,
                         !.data = with_distance(s, lat, lng),
                         !.spatial_queries = 1]
       ELSE resp' = [Response("get_aeds_sorted_by_location",
                              database_exception_handler(fault)) EXCEPT
                       !.args = <<lat, lng, limit>>,
                       !.spatial_queries = 1,
                       !.fault = fault]
  /\ UNCHANGED <<request_history, request_log, feed, db, runs, pc, job, txn, hist, observed, reports, report_seq, now, req>>

\* density >= num/den, for density = count / (pi5/100000 * radius * radius)
\* with the radius in kilometres: the comparison the floats make, in whole
\* numbers (radius is in tenths of a kilometre and not 0).
density_at_least(count, radius, pi5, num, den) ==
  (count * 10000000 * den) \div (radius * radius) >= num * pi5

\* Mutant of coverage_rating: the area is taken as 3.14159 * radius.
coverage_rating_linear_area(count, radius) ==
  LET at_least(num, den) == (count * 1000000 * den) \div Abs(radius) >= num * 314159
  IN IF radius = 0 \/ count = 0 THEN "No Coverage"
     ELSE IF at_least(2, 1) THEN "Excellent"
     ELSE IF at_least(1, 1) THEN "Good"
     ELSE IF at_least(1, 2) THEN "Moderate"
     ELSE "Poor"

\* area = 3.14159 * radius * radius; density = count / area if area > 0
\* else 0; then the rating chain (coverage_rating starts as "Unknown" and is
\* assigned by one of the five branches).
coverage_rating(count, radius) ==
  LET area_positive == radius # 0
      density_positive == area_positive /\ count > 0
      at_least(num, den) ==
        area_positive /\ density_at_least(count, radius, 314159, num, den)
  IN IF at_least(2, 1) THEN "Excellent"
     ELSE IF at_least(1, 1) THEN "Good"
     ELSE IF at_least(1, 2) THEN "Moderate"
     ELSE IF density_positive THEN "Poor"
     ELSE "No Coverage"

\* The rows of the coverage statements' WHERE clause.
coverage_where(rows, lat, lng, radius) ==
  {a \in rows : ST_DWithin(geo_point(a), ST_MakePoint(lng, lat), radius)}

\* SELECT COUNT(*) ... WHERE ST_DWithin(...)
aed_count_query(rows, lat, lng, radius) ==
  Cardinality(coverage_where(rows, lat, lng, radius))

\* SELECT MIN(distance), MAX(distance) ... WHERE ST_DWithin(...), in metres:
\* NULL over no rows.
distance_stats_query(rows, lat, lng, radius) ==
  LET near == coverage_where(rows, lat, lng, radius)
      d(a) == ST_Distance(geo_point(a), ST_MakePoint(lng, lat))
  IN IF near = {}
     THEN [min_distance |-> None, max_distance |-> None]
     ELSE [min_distance |-> PyNum(CHOOSE x \in {d(a) : a \in near} :
                                    \A y \in {d(a) : a \in near} : x <= y),
           max_distance |-> PyNum(CHOOSE x \in {d(a) : a \in near} :
                                    \A y \in {d(a) : a \in near} : x >= y)]

\* SELECT COUNT(*) ... WHERE ST_DWithin(...) AND public_use = true
public_aeds_query(rows, lat, lng, radius) ==
  Cardinality({a \in coverage_where(rows, lat, lng, radius) : a.public_use = TRUE})

\* round(x, 3) if x else None: None and 0.0 are both false.
if_truthy(x) == IF x.t = "num" /\ x.n # 0 THEN x ELSE None

\* The result dictionary of evaluate_aed_coverage.
coverage_result(aed_count_result, distance_stats, public_count, radius) ==
  [aed_count |-> aed_count_result,
   public_aeds |-> public_count,
   private_aeds |-> aed_count_result - public_count,
   rating |-> coverage_rating(aed_count_result, radius),
   min_distance |-> if_truthy(distance_stats.min_distance),
   max_distance |-> if_truthy(distance_stats.max_distance)]

\* evaluate_aed_coverage with no commit between its statements: three
\* spatial statements (count, distance statistics, public count), the
\* rating; any exception becomes a 500.
EvaluateAedCoverage(lat, lng, radius) ==
  /\ \E fault \in StoreOutcomes(lat, lng, radius, 0) :
       IF fault = ""
       THEN resp' = [Response("evaluate_aed_coverage", 200) EXCEPT
                       !.args = <<lat, lng, radius>>,
                       !.data = <<coverage_result(
                                    aed_count_query(db, lat, lng, radius),
                                    distance_stats_query(db, lat, lng, radius),
                                    public_aeds_query(db, lat, lng, radius),
                                    radius)>>,
                       !.spatial_queries = 3]
       ELSE \E sent \in 1..3 :
              resp' = [Response("evaluate_aed_coverage", 500) EXCEPT
                         !.args = <<lat, lng, radius>>,
                         !.spatial_queries = sent,
                         !.fault = fault]
  /\ UNCHANGED <<request_history, request_log, feed, db, runs, pc, job, txn, hist, observed, reports, report_seq, now, req>>

\* evaluate_aed_coverage, statement by statement.  The session reads
\* committed rows, each statement those committed when it runs.
\* First statement: the count.
CoverageCount(lat, lng, radius) ==
  /\ req.stage = "idle"
  /\ \E fault \in StoreOutcomes(lat, lng, radius, 0) :
       IF fault = ""
       THEN /\ req' = [stage |-> "counted", lat |-> lat, lng |-> lng, radius |-> radius,
                       aed_count_result |-> aed_count_query(db, lat, lng, radius),
                       distance_stats |-> distance_stats_query({}, lat, lng, radius)]
            /\ UNCHANGED resp
       ELSE /\ resp' = [Response("evaluate_aed_coverage", 500) EXCEPT
                          !.args = <<lat, lng, radius>>,
                          !.spatial_queries = 1,
                          !.fault = fault]
            /\ UNCHANGED req
  /\ UNCHANGED <<request_history, request_log, feed, db, runs, pc, job, txn, hist, observed, reports, report_seq, now>>

\* Second statement: the distance statistics.
CoverageStats ==
  /\ req.stage = "counted"
  /\ req' = [req EXCEPT !.stage = "measured",
                        !.distance_stats =
                           distance_stats_query(db, req.lat, req.lng, req.radius)]
  /\ UNCHANGED <<request_history, request_log, feed, db, runs, pc, job, txn, hist, observed, reports, report_seq, now, resp>>

\* Third statement: the public count; then the rating and the result.
CoveragePublic ==
  /\ req.stage = "measured"
  /\ resp' = [Response("evaluate_aed_coverage", 200) EXCEPT
                !.args = <<req.lat, req.lng, req.radius>>,
                !.data = <<coverage_result(
                             req.aed_count_result,
                             req.distance_stats,
                             public_aeds_query(db, req.lat, req.lng, req.radius),
                             req.radius)>>,
                !.spatial_queries = 3]
  /\ req' = NoReq
  /\ UNCHANGED <<request_history, request_log, feed, db, runs, pc, job, txn, hist, observed, reports, report_seq, now>>

\* What callers of the query endpoints send: points inside, on the edge of
\* and outside the legal ranges; radii negative, zero, below a kilometre and
\* of hundreds of kilometres; limits negative, zero, small and large.
LatInputs == {-91, -90, 22, 23, 90, 91}
LngInputs == {-181, -180, 114, 180, 181}
RadiusInputs == {-10, 0, 3, 5, 10, 1200, 2500}
LimitInputs == {-1, 0, 1, 2, 50}

(***************************************************************************)
(* Specification: the runs happen one after the other.                     *)
(***************************************************************************)
Run(p) ==
  \/ \E path \in {"service", "task", "startup"} : Start(p, path)
  \/ Download(p)
  \/ Parse(p)
  \/ MapColumns(p)
  \/ CountBefore(p)
  \/ Begin(p)
  \/ Delete(p)
  \/ ProcessRow(p)
  \/ FinalFlush(p)
  \/ Commit(p)
  \/ CountAfter(p)
  \/ StartupCount(p)
  \/ StartupDownload(p)
  \/ StartupParse(p)
  \/ StartupRow(p)
  \/ StartupFinalCommit(p)
  \/ StartupLastCommit(p)

Next == Run("w1") \/ Read

Spec == Init /\ [][Next]_vars

(***************************************************************************)
(* Specification of the report endpoints, with refreshes running           *)
(* beside them.                                                            *)
(***************************************************************************)
\* The feeds of this specification: complete rows under the full header.
ReportFeeds ==
  {Frame(<<"AED Name", "AED Address", "Latitude", "Longitude", "Public Use",
           "Service Hours", "Brand">>, ks) :
     ks \in {<<RowKind(PyNum(22), PyNum(114), PyStr("Yes"), PyStr("24h"), PyStr("Zoll"))>>}}

InitReports ==
  /\ feed \in ReportFeeds
  /\ InitStore

\* api_middleware returns the response; the handlers block the event loop
\* while they query, so one request is handled at a time.
ResponseSent ==
  /\ resp # NoResp
  /\ resp' = NoResp
  /\ UNCHANGED <<request_history, request_log, feed, db, runs, pc, job, txn, hist, observed, reports, report_seq, now, req>>

\* A response is returned before the next step is taken: returning it
\* touches neither table, so no stored state is lost by this order.
NextReports ==
  \/ resp = NoResp /\ Run("w1")
  \/ \E aed_id \in AedIdInputs : \E report_type \in ReportTypeInputs :
       resp = NoResp /\ ReportAedIssueLookup(aed_id, report_type)
  \/ resp = NoResp /\ ReportAedIssueCommit
  \/ \E aed_id \in AedIdInputs : \E report_type \in ReportTypeInputs :
       resp = NoResp /\ CreateReport(aed_id, report_type)
  \/ \E report_id \in ReportIdInputs : \E status \in StatusInputs :
       resp = NoResp /\ UpdateReportStatus(report_id, status)
  \/ \E report_id \in ReportIdInputs : resp = NoResp /\ DeleteReport(report_id)
  \/ ResponseSent

SpecReports == InitReports /\ [][NextReports]_vars

(***************************************************************************)
(* Specification of the reports routes that validate their input inside    *)
(* the handler: create_report and get_report_stats.                        *)
(***************************************************************************)
NextStats ==
  \/ \E aed_id \in AedIdInputs : \E report_type \in ReportTypeInputs :
       resp = NoResp /\ CreateReport(aed_id, report_type)
  \/ \E report_id \in ReportIdInputs : \E status \in StatusInputs :
       resp = NoResp /\ UpdateReportStatus(report_id, status)
  \/ \E start_date \in DateInputs : resp = NoResp /\ GetReportStats(start_date)
  \/ ResponseSent

SpecStats == InitReports /\ [][NextStats]_vars

(***************************************************************************)
(* Specification of the query endpoints, over the datasets a refresh       *)
(* stores.                                                                 *)
(***************************************************************************)
\* The feeds of this specification: rows at the query point, one and two
\* degrees north of it, public or not.
QueryRows ==
  {RowKind(PyNum(22), PyNum(114), PyStr("Yes"), PyStr("24h"), PyStr("Zoll")),
   RowKind(PyNum(22), PyNum(114), PyStr("No"), PyStr("24h"), PyStr("Zoll")),
   RowKind(PyNum(23), PyNum(114), PyStr("Yes"), PyStr("24h"), PyStr("Zoll")),
   RowKind(PyNum(24), PyNum(114), PyStr("No"), PyStr("24h"), PyStr("Zoll"))}

QueryFeeds ==
  {Frame(<<"AED Name", "AED Address", "Latitude", "Longitude", "Public Use",
           "Service Hours", "Brand">>, ks) : ks \in SeqsUpTo(QueryRows, MaxRows)}

\* Table aeds after the refresh task has committed feed f to an empty store.
refreshed(f) ==
  LET m == map_csv_columns(f.columns).m
      out(i) == normalize("task", f.rows[i], m, i)
  IN {[out(i).draft EXCEPT !.id = NewId(1, i)] :
        i \in {k \in 1..Len(f.rows) : out(k).outcome = "accepted"}}

InitQueries ==
  /\ feed \in QueryFeeds
  /\ db = refreshed(feed)
  /\ runs = 1
  /\ pc = [p \in Procs |-> "idle"]
  /\ job = [p \in Procs |-> Job0]
  /\ txn = [p \in Procs |-> Txn0]
  /\ hist = [p \in Procs |-> Hist0]
  /\ observed = NotRead
  /\ reports = {}
  /\ report_seq = 0
  /\ now = 0
  /\ req = NoReq
  /\ resp = NoResp
  /\ request_history = NoHistory
  /\ request_log = <<>>

NextQueries ==
  \/ \E lat \in LatInputs : \E lng \in LngInputs : \E radius \in RadiusInputs :
       \E limit \in LimitInputs : \E public_only \in BOOLEAN :
         /\ resp = NoResp
         /\ (lat = 22 /\ lng = 114) \/ (radius = 1200 /\ limit = 50 /\ public_only)
         /\ GetNearbyAeds(lat, lng, radius, limit, public_only)
  \/ \E lat \in LatInputs : \E lng \in LngInputs : \E limit \in LimitInputs :
       /\ resp = NoResp
       /\ (lat = 22 /\ lng = 114) \/ limit = 50
       /\ GetAedsSortedByLocation(lat, lng, limit)
  \/ \E lat \in LatInputs : \E lng \in LngInputs : \E radius \in RadiusInputs :
       /\ resp = NoResp
       /\ (lat = 22 /\ lng = 114) \/ radius = 1200
       /\ EvaluateAedCoverage(lat, lng, radius)
  \/ ResponseSent

SpecQueries == InitQueries /\ [][NextQueries]_vars

(***************************************************************************)
(* The refresh trigger: refresh_data schedules _refresh_data_task as a     *)
(* background task and returns; the task runs after the response.          *)
(***************************************************************************)
\* Mutant of RefreshData: the handler clears the table itself before it
\* answers.
RefreshDataInline(p) ==
  /\ pc[p] \in {"idle", "done"}
  /\ runs < MaxRuns
  /\ db' = {}
  /\ pc' = [pc EXCEPT ![p] = "scheduled"]
  /\ resp' = [Response("refresh_data", 200) EXCEPT !.data = <<"accepted">>]
  /\ UNCHANGED <<request_history, request_log, feed, runs, job, txn, hist, observed, reports, report_seq, now, req>>

\* refresh_data: background_tasks.add_task(_refresh_data_task); return
\* {"status": "accepted", ...}.
RefreshData(p) ==
  /\ pc[p] \in {"idle", "done"}
  /\ runs < MaxRuns
  /\ pc' = [pc EXCEPT ![p] = "scheduled"]
  /\ resp' = [Response("refresh_data", 200) EXCEPT !.data = <<"accepted">>]
  /\ UNCHANGED <<request_history, request_log, feed, db, runs, job, txn, hist, observed, reports, report_seq, now, req>>

\* The scheduled task starts: _db = SessionLocal().
BackgroundTask(p) ==
  /\ pc[p] = "scheduled"
  /\ runs' = runs + 1
  /\ pc' = [pc EXCEPT ![p] = "download"]
  /\ job' = [job EXCEPT ![p] = [Job0 EXCEPT !.path = "task", !.run = runs + 1]]
  /\ txn' = [txn EXCEPT ![p] = Txn0]
  /\ hist' = [hist EXCEPT ![p] = [Hist0 EXCEPT !.before = db]]
  /\ observed' = NotRead
  /\ UNCHANGED <<apivars, feed, db>>

\* The feeds of this specification: up to MaxRows rows of two kinds under
\* the full header.
TriggerFeeds ==
  {Frame(<<"AED Name", "AED Address", "Latitude", "Longitude", "Public Use",
           "Service Hours", "Brand">>, ks) :
     ks \in SeqsUpTo({RowKind(PyNum(22), PyNum(114), PyStr("Yes"), PyStr("24h"), PyStr("Zoll")),
                      RowKind(PyNum(95), PyNum(114), PyStr("No"), PyStr("24h"), PyStr("Zoll"))},
                     MaxRows)}

InitTrigger ==
  /\ feed \in TriggerFeeds
  /\ InitStore

NextTrigger ==
  \/ RefreshData("w1")
  \/ BackgroundTask("w1")
  \/ Run("w1")

SpecTrigger == InitTrigger /\ [][NextTrigger]_vars

(***************************************************************************)
(* Termination of a run.  A step of a run is taken once it is reached,     *)
(* except the one that can wait without bound: update_aed_database and the *)
(* task fetch the feed with timeout=30 and so return or raise, while       *)
(* startup_event calls requests.get(url, headers=headers) with no timeout  *)
(* and waits for as long as the server keeps the connection open.          *)
(***************************************************************************)
\* The steps of run p that return or raise in bounded time.
TimelyStep(p) ==
  \/ Download(p)
  \/ Parse(p)
  \/ MapColumns(p)
  \/ CountBefore(p)
  \/ Begin(p)
  \/ Delete(p)
  \/ ProcessRow(p)
  \/ FinalFlush(p)
  \/ Commit(p)
  \/ CountAfter(p)
  \/ StartupCount(p)
  \/ StartupParse(p)
  \/ StartupRow(p)
  \/ StartupFinalCommit(p)
  \/ StartupLastCommit(p)

InitLive ==
  /\ feed \in TriggerFeeds
  /\ InitStore

NextLive == Run("w1")

SpecLive == InitLive /\ [][NextLive]_vars /\ WF_vars(TimelyStep("w1"))

(***************************************************************************)
(* Specification of the searches over a dataset whose records are being    *)
(* reported.                                                               *)
(***************************************************************************)
NextFlagged ==
  \/ \E aed_id \in AedIdInputs : \E report_type \in ReportTypeInputs :
       resp = NoResp /\ ReportAedIssueLookup(aed_id, report_type)
  \/ resp = NoResp /\ ReportAedIssueCommit
  \/ \E radius \in {5, 1200} : \E limit \in {1, 50} : \E public_only \in BOOLEAN :
       resp = NoResp /\ GetNearbyAeds(22, 114, radius, limit, public_only)
  \/ \E limit \in {1, 50} : resp = NoResp /\ GetAedsSortedByLocation(22, 114, limit)
  \/ ResponseSent

SpecFlagged == InitQueries /\ [][NextFlagged]_vars

(***************************************************************************)
(* Specification of the coverage evaluation beside a refresh.  The         *)
(* handler blocks the event loop, the refresh task runs in the thread      *)
(* pool: the task's steps fall between the handler's statements.           *)
(***************************************************************************)
\* The feeds of this specification: public rows at the query point and
\* private rows one degree north of it.
CoverageFeeds ==
  {Frame(<<"AED Name", "AED Address", "Latitude", "Longitude", "Public Use",
           "Service Hours", "Brand">>, ks) :
     ks \in SeqsUpTo({RowKind(PyNum(22), PyNum(114), PyStr("Yes"), PyStr("24h"), PyStr("Zoll")),
                      RowKind(PyNum(23), PyNum(114), PyStr("No"), PyStr("24h"), PyStr("Zoll"))},
                     MaxRows)}

InitCoverage ==
  /\ feed \in CoverageFeeds
  /\ InitStore

NextCoverage ==
  \/ resp = NoResp /\ Run("w1")
  \/ \E radius \in {5, 1200} : resp = NoResp /\ CoverageCount(22, 114, radius)
  \/ resp = NoResp /\ CoverageStats
  \/ resp = NoResp /\ CoveragePublic
  \/ ResponseSent

SpecCoverage == InitCoverage /\ [][NextCoverage]_vars

(***************************************************************************)
(* Specification of two refreshes that overlap: each trigger adds a task   *)
(* of its own, and nothing keeps a second one from starting while the      *)
(* first runs.  The task's schema statement (ALTER TABLE, committed on its *)
(* own before the CSV is parsed) waits while another session's open        *)
(* transaction holds a lock on the table.                                  *)
(***************************************************************************)
\* The feeds of this specification: up to MaxRows complete rows.
OverlapFeeds ==
  {Frame(<<"AED Name", "AED Address", "Latitude", "Longitude", "Public Use",
           "Service Hours", "Brand">>, ks) :
     ks \in SeqsUpTo({RowKind(PyNum(22), PyNum(114), PyStr("Yes"), PyStr("24h"), PyStr("Zoll"))},
                     MaxRows)}

\* The rows an earlier refresh of feed f stored: their ids precede those of
\* the runs of this behaviour.
earlier(f) == {[r EXCEPT !.id = r.id - MaxRows] : r \in refreshed(f)}

InitOverlap ==
  /\ feed \in OverlapFeeds
  /\ db = earlier(feed)
  /\ runs = 0
  /\ pc = [p \in Procs |-> "idle"]
  /\ job = [p \in Procs |-> Job0]
  /\ txn = [p \in Procs |-> Txn0]
  /\ hist = [p \in Procs |-> Hist0]
  /\ observed = NotRead
  /\ reports = {}
  /\ report_seq = 0
  /\ now = 0
  /\ req = NoReq
  /\ resp = NoResp
  /\ request_history = NoHistory
  /\ request_log = <<>>

\* Another session has read or written the table in a transaction that is
\* still open.
TableLocked(p) ==
  \E q \in Procs \ {p} : pc[q] \in {"begin", "delete", "delete_wait", "rows", "commit"}

NextOverlap ==
  \E p \in Procs :
    \/ Start(p, "task")
    \/ Download(p)
    \/ ~TableLocked(p) /\ Parse(p)
    \/ MapColumns(p)
    \/ CountBefore(p)
    \/ Begin(p)
    \/ Delete(p)
    \/ DeleteWaits(p)
    \/ DeleteResumes(p)
    \/ ProcessRow(p)
    \/ FinalFlush(p)
    \/ Commit(p)
    \/ CountAfter(p)

SpecOverlap == InitOverlap /\ [][NextOverlap]_vars

(***************************************************************************)
(* The rate limiter.  One RateLimiter object lives as long as the process  *)
(* (rate_limiter = RateLimiter()); the middleware asks it before every     *)
(* request and answers 429 itself when it says no.  Time is counted in     *)
(* ticks; the minute and the allowance are scaled down together.           *)
(***************************************************************************)

\* RateLimiter(requests_per_minute=60), scaled
requests_per_minute == 2
\* the 60 seconds of clean_old_requests, in ticks
Minute == 2
\* the clock stops here
MaxTime == 3
\* the requests of one behaviour
MaxRequests == 5

\* request.client.host
Clients == {"10.0.0.1", "10.0.0.2"}

\* clean_old_requests(now): every list keeps the times after now - 60; a
\* client whose list became empty is forgotten
clean_old_requests(h, t) ==
  LET kept(ip) == SelectSeq(h[ip], LAMBDA r : r > t - Minute)
  IN [ip \in {i \in DOMAIN h : kept(i) # <<>>} |-> kept(ip)]

\* is_allowed, checking the list before the new time is added to it
is_allowed_before_append(h, client_ip, t) ==
  LET c == clean_old_requests(h, t)
  IN IF client_ip \notin DOMAIN c
       THEN [history |-> [ip \in DOMAIN c \cup {client_ip} |->
                            IF ip = client_ip THEN <<t>> ELSE c[ip]],
             allowed |-> TRUE]
       ELSE [history |-> [c EXCEPT ![client_ip] = Append(@, t)],
             allowed |-> Len(c[client_ip]) <= requests_per_minute]

\* is_allowed(client_ip) at time t: the history it leaves and its verdict.  A
\* client without a list gets one and is allowed; otherwise the time is added,
\* denied or not, and the verdict is whether the list is within the allowance
is_allowed(h, client_ip, t) ==
  LET c == clean_old_requests(h, t)
  IN IF client_ip \notin DOMAIN c
       THEN [history |-> [ip \in DOMAIN c \cup {client_ip} |->
                            IF ip = client_ip THEN <<t>> ELSE c[ip]],
             allowed |-> TRUE]
       ELSE [history |-> [c EXCEPT ![client_ip] = Append(@, t)],
             allowed |-> Len(c[client_ip]) + 1 <= requests_per_minute]

\* api_middleware: a request of client_ip arrives.  Denied, it is answered 429
\* and call_next is never reached; allowed, it goes on to its route handler
ApiRequest(client_ip) ==
  /\ Len(request_log) < MaxRequests
  /\ LET v == is_allowed(request_history, client_ip, now)
     IN /\ request_history' = v.history
        /\ request_log' = Append(request_log,
                                 [ip |-> client_ip, t |-> now, allowed |-> v.allowed])
        /\ resp' = IF v.allowed
                     THEN [Response("call_next", 200) EXCEPT !.args = <<client_ip>>]
                     ELSE [Response("api_middleware", 429) EXCEPT !.args = <<client_ip>>]
  /\ UNCHANGED <<feed, db, runs, pc, job, txn, hist, observed, reports, report_seq, now, req>>

\* time.time() moves on
Tick ==
  /\ now < MaxTime
  /\ now' = now + 1
  /\ UNCHANGED <<feed, db, runs, pc, job, txn, hist, observed, reports, report_seq, req, resp,
               request_history, request_log>>

InitRate ==
  /\ feed = Frame(<<>>, <<>>)
  /\ InitStore

NextRate ==
  \/ \E client_ip \in Clients : ApiRequest(client_ip)
  \/ Tick

SpecRate == InitRate /\ [][NextRate]_vars

(***************************************************************************)
(* Properties.                                                             *)
(***************************************************************************)
\* The indices of the feed rows that path accepts (none when the feed's
\* columns cannot be mapped).
AcceptedRows(path) ==
  LET m == column_matches_of(feed.columns)
  IN IF ~map_csv_columns(feed.columns).ok
     THEN {}
     ELSE {i \in 1..Len(feed.rows) :
             normalize(path, feed.rows[i], m, i).outcome = "accepted"}

\* The complete dataset a run of path with ordinal run is to leave behind:
\* one record per accepted feed row.
ExpectedDataset(path, run) ==
  LET m == column_matches_of(feed.columns)
  IN {[normalize(path, feed.rows[i], m, i).draft EXCEPT !.id = NewId(run, i)] :
        i \in AcceptedRows(path)}

InTransaction(p) == Refreshing(p) /\ pc[p] \in {"rows", "commit"}

\* C1: while a refresh runs, whatever a concurrent reader's query returned is
\* the complete dataset from before the refresh or the complete dataset the
\* refresh commits; before the commit it is the former, and it is empty only
\* if one of these two datasets is empty.
C1_ReaderSeesWholeDataset ==
  \A p \in Procs :
    (Refreshing(p) /\ observed.read) =>
      \/ observed.rows = hist[p].before
      \/ /\ hist[p].outcome = "committed"
         /\ observed.rows = ExpectedDataset(job[p].path, job[p].run)

\* C1 witness: a read made while the refresh's transaction holds the delete
\* and a flushed batch returned the full, non-empty old dataset.
C1_Witness ==
  \E p \in Procs :
    /\ InTransaction(p)
    /\ txn[p].delset # {}
    /\ txn[p].inserted # {}
    /\ observed.read
    /\ observed.rows = hist[p].before
    /\ observed.rows # {}

\* C2: a refresh whose delete-then-repopulate step raised (delete, row loop,
\* final flush or commit) leaves the stored set exactly as it was: same
\* records, same count.
C2_RollbackRestores ==
  \A p \in Procs :
    (Refreshing(p) /\ hist[p].outcome = "rolled_back") =>
      /\ db = hist[p].before
      /\ Cardinality(db) = job[p].count_before

\* C2 witness: a commit raised after a batch had been flushed over a
\* non-empty dataset.
C2_Witness ==
  \E p \in Procs :
    /\ Refreshing(p)
    /\ hist[p].outcome = "rolled_back"
    /\ "commit" \in hist[p].faults
    /\ job[p].success_count >= batch_size
    /\ hist[p].before # {}

\* C3: a refresh that stops before its transaction opens (fetch, parse or
\* column mapping failed) has deleted and inserted nothing; up to the delete
\* the session holds no change and the stored set is the one found.
C3_AbortBeforeTransactionKeepsData ==
  \A p \in Procs :
    Refreshing(p) =>
      /\ hist[p].outcome = "aborted" => db = hist[p].before
      /\ pc[p] \in {"download", "parse", "map", "count_before", "begin", "delete"} =>
           (txn[p] = Txn0 /\ db = hist[p].before)

\* C3 witness: a fetch or parse failure ended a refresh over a non-empty
\* dataset.
C3_Witness ==
  \E p \in Procs :
    /\ Refreshing(p)
    /\ hist[p].outcome = "aborted"
    /\ hist[p].faults \cap {"fetch", "parse"} # {}
    /\ hist[p].before # {}

\* C4: after every refresh that commits, the stored set is exactly one
\* record per accepted feed row, all of them created by this run; its size
\* depends on the feed alone, so two runs over the same feed end with the
\* same count, and the summary's records_after equals its accepted count.
C4_RefreshReplacesDataset ==
  \A p \in Procs :
    (Refreshing(p) /\ hist[p].outcome = "committed") =>
      /\ db = ExpectedDataset(job[p].path, job[p].run)
      /\ Cardinality(db) = Cardinality(AcceptedRows("service"))
      /\ db \cap hist[p].before = {}
      /\ (pc[p] = "done" /\ "count_after" \notin hist[p].faults) =>
           (job[p].count_after = job[p].success_count
              /\ job[p].count_after = Cardinality(db))

\* C4 witness: the second of two refreshes committed over the dataset of the
\* first, and the count is the same, non-zero one.
C4_Witness ==
  \E p \in Procs :
    /\ Refreshing(p)
    /\ pc[p] = "done"
    /\ hist[p].outcome = "committed"
    /\ job[p].run = 2
    /\ hist[p].before # {}
    /\ job[p].count_before = job[p].count_after
    /\ job[p].count_after > 0

\* C5 (as claimed): at every point of the row loop the three counters add up
\* to the number of rows processed.
C5_EveryRowCountedOnce ==
  \A p \in Procs :
    (Refreshing(p) /\ pc[p] \in {"rows", "commit", "count_after"}) =>
      job[p].success_count + job[p].error_count + job[p].skipped_rows = job[p].idx - 1

\* C6 (as claimed): a refresh in which nothing failed but the processing of
\* single rows (a batch flush triggered by a row included) commits, and
\* stores every accepted row.
C6_RowFailureNeverAborts ==
  \A p \in Procs :
    (/\ Refreshing(p)
     /\ pc[p] = "done"
     /\ job[p].column_matches # NoMatches
     /\ hist[p].faults \subseteq {"row_flush"}) =>
      /\ hist[p].outcome = "committed"
      /\ db = ExpectedDataset(job[p].path, job[p].run)

\* The cell of canonical field f in the feed row a stored record came from,
\* under column matching m (NaN when the feed has no column for f).
SourceCell(m, r, f) ==
  IF f \in DOMAIN m THEN feed.rows[r.src][m[f]] ELSE NaN

\* The column matching of the feed's header.
FeedMatches == column_matches_of(feed.columns)

\* A coordinate cell that is present and is not a number within the bound.
BadCoordinate(v, bound) ==
  /\ notna(v)
  /\ \/ v.t \notin {"num", "str"}
     \/ v.t = "str" /\ v.s \notin DOMAIN NumericText
     \/ v.t = "str" /\ v.s \in DOMAIN NumericText
          /\ (NumericText[v.s] < -bound \/ NumericText[v.s] > bound)
     \/ v.t = "num" /\ (v.n < -bound \/ v.n > bound)

\* C7: every stored record has latitude in [-90,90] and longitude in
\* [-180,180], and none comes from a feed row whose coordinate is out of
\* range or not numeric.
C7_StoredCoordinatesInRange ==
  LET m == FeedMatches
  IN \A r \in db :
       /\ -90 <= r.latitude /\ r.latitude <= 90
       /\ -180 <= r.longitude /\ r.longitude <= 180
       /\ ~BadCoordinate(SourceCell(m, r, "lat"), 90)
       /\ ~BadCoordinate(SourceCell(m, r, "lng"), 180)

\* C7 witness: a run stored records from a feed of which it skipped a row
\* with a bad coordinate.
C7_Witness ==
  \E p \in Procs :
    /\ hist[p].outcome \in {"committed", "loaded"}
    /\ db # {}
    /\ \E i \in 1..Len(hist[p].rows) :
         /\ hist[p].rows[i] = "skipped"
         /\ BadCoordinate(feed.rows[i][job[p].column_matches["lat"]], 90)

\* C8 (as claimed): a row with a missing latitude or longitude is skipped,
\* and no stored record comes from such a row.
C8_MissingCoordinateSkipped ==
  /\ LET fm == FeedMatches
     IN \A r \in db : notna(SourceCell(fm, r, "lat")) /\ notna(SourceCell(fm, r, "lng"))
  /\ \A p \in Procs : \A i \in 1..Len(hist[p].rows) :
       LET row == feed.rows[i]
           m == job[p].column_matches
       IN (isna(row[m["lat"]]) \/ isna(row[m["lng"]])) => hist[p].rows[i] = "skipped"

\* C8 (amended): a missing latitude or longitude is coerced to 0.0, which is
\* within range: the row is accepted unless its other coordinate is bad, and
\* the record is stored with 0 for the missing coordinate.
C8_MissingCoordinateStoredAsZero ==
  /\ LET fm == FeedMatches
     IN \A r \in db :
          /\ isna(SourceCell(fm, r, "lat")) => r.latitude = 0
          /\ isna(SourceCell(fm, r, "lng")) => r.longitude = 0
  /\ \A p \in Procs : \A i \in 1..Len(hist[p].rows) :
       LET row == feed.rows[i]
           m == job[p].column_matches
       IN (isna(row[m["lat"]]) \/ isna(row[m["lng"]])) =>
            (hist[p].rows[i] = "accepted" <=>
               (~BadCoordinate(row[m["lat"]], 90) /\ ~BadCoordinate(row[m["lng"]], 180)))

\* C8 witness: a record with latitude 0 is stored for a row whose latitude
\* cell is missing.
C8_Witness ==
  LET m == FeedMatches
  IN \E r \in db : isna(SourceCell(m, r, "lat")) /\ r.latitude = 0 /\ r.longitude # 0

\* C9 (as claimed): every stored record has a string for service_hours and
\* for each optional text attribute, the empty string where the feed has no
\* column or no value.
C9_TextAttributesAreStrings ==
  LET m == FeedMatches
  IN \A r \in db :
       /\ r.service_hours.t = "str"
       /\ isna(SourceCell(m, r, "service_hours")) => r.service_hours = PyStr("")
       /\ \A f \in OptText :
            /\ r.text[f].t = "str"
            /\ isna(SourceCell(m, r, f)) => r.text[f] = PyStr("")

\* C10 (as claimed): public_use of a stored record is true exactly when the
\* source value is one of "yes", "true", "1" in any letter case, false for
\* any other string and false when the column or the value is absent.
C10_PublicUseParsed ==
  \A r \in db :
    LET v == SourceCell(FeedMatches, r, "public_use")
    IN /\ isna(v) => ~r.public_use
       /\ v.t = "str" =>
            (r.public_use <=>
               v.s \in {"yes", "Yes", "YES", "true", "True", "TRUE", "1"})

(***************************************************************************)
(* The column mapping.                                                     *)
(***************************************************************************)
\* The positions, in the priority list of field f, of the aliases that occur
\* in the feed's header.
AliasesInHeader(f) ==
  {i \in 1..Len(column_map[f]) : column_map[f][i] \in Range(feed.columns)}

\* Run p of the refresh service holds the mapping map_csv_columns returned.
Mapped(p) == job[p].path = "service" /\ job[p].column_matches # NoMatches

\* C11: whatever the order of the header's columns, the mapping returned by
\* map_csv_columns gives every field the alias of highest priority that
\* occurs in the header, leaves out a field none of whose aliases occurs, and
\* never maps a field to a column that is not one of its aliases.
C11_FirstAliasByPriority ==
  \A p \in Procs :
    Mapped(p) =>
      \A f \in FieldSet :
        LET m == job[p].column_matches
        IN IF AliasesInHeader(f) = {}
           THEN f \notin DOMAIN m
           ELSE /\ f \in DOMAIN m
                /\ \E i \in AliasesInHeader(f) :
                     /\ m[f] = column_map[f][i]
                     /\ \A j \in AliasesInHeader(f) : i <= j

\* A header that lists "Name" before "AED Name" was mapped: the field is
\* mapped to "AED Name", the alias of higher priority.
C11_Witness ==
  \E p \in Procs :
    /\ Mapped(p)
    /\ \E k \in 1..Len(feed.columns) : \E l \in 1..Len(feed.columns) :
         k < l /\ feed.columns[k] = "Name" /\ feed.columns[l] = "AED Name"
    /\ job[p].column_matches["name"] = "AED Name"

\* Every required field has an alias in the feed's header.
RequiredPresent == \A f \in required_fields : AliasesInHeader(f) # {}

\* Where a refresh stands once its mapping succeeded.
AfterMapping == {"count_before", "begin", "delete", "rows", "commit", "count_after"}

\* C12: map_csv_columns fails exactly when a required field has no alias in
\* the header: a refresh goes past the mapping only with all four required
\* fields mapped (never with a partial mapping), a header that has them never
\* makes the mapping fail whatever optional fields it lacks, and a refresh
\* whose mapping failed is aborted with the stored rows as they were.
C12_FailsIffRequiredMissing ==
  \A p \in Procs :
    Refreshing(p) =>
      /\ (pc[p] \in AfterMapping \/ job[p].column_matches # NoMatches) =>
           (RequiredPresent /\ required_fields \subseteq DOMAIN job[p].column_matches)
      /\ (pc[p] = "done" /\ hist[p].faults = {} /\ ~RequiredPresent) =>
           (hist[p].outcome = "aborted" /\ db = hist[p].before
              /\ job[p].column_matches = NoMatches)
      /\ (pc[p] = "done" /\ hist[p].outcome = "aborted" /\ RequiredPresent) =>
           hist[p].faults # {}

\* A refresh was aborted by the mapping of a header that has a name column
\* and no latitude column.
C12_Witness ==
  \E p \in Procs :
    /\ Refreshing(p)
    /\ pc[p] = "done"
    /\ hist[p].faults = {}
    /\ hist[p].outcome = "aborted"
    /\ AliasesInHeader("lat") = {}
    /\ AliasesInHeader("name") # {}

(***************************************************************************)
(* Reports and flags.                                                      *)
(***************************************************************************)
\* Some stored report names AED a.
Reported(a) == \E r \in reports : r.aed_id = a.id

\* C13: in every reachable state an AED is flagged if and only if at least
\* one stored report names its id, whatever reports were created (through
\* either endpoint) or deleted, statuses updated and refreshes run.
C13_FlaggedIffReported ==
  \A a \in db : a.is_flagged <=> Reported(a)

\* C14: every step that stores a new report stores it for an AED that
\* exists: a submission whose aed_id names no stored AED creates no report,
\* and no AED's flag fields change in a step that creates no report.
C14_UnknownAedRejected ==
  [][/\ \A r \in reports' \ reports : \E a \in db : a.id = r.aed_id
     /\ (reports' \ reports = {}) =>
          \A a \in db : \A b \in db' :
            a.id = b.id => (a.is_flagged = b.is_flagged /\ a.flag_reason = b.flag_reason)]_vars

\* The step finishes a report_aed_issue request.
ReportAedIssueEnds == req.stage = "found" /\ req'.stage = "idle"

\* C15: the step that finishes a report_aed_issue request either stores the
\* new report together with the AED's flag fields (is_flagged, flag_reason
\* the report's type, flagged_at the report's created_at) or stores neither,
\* also while a refresh is in flight; and no other step changes the flag
\* fields of a stored AED.
C15_ReportAndFlagTogether ==
  [][/\ ReportAedIssueEnds =>
          \/ reports' = reports /\ db' = db
          \/ \E r \in reports' \ reports :
               /\ reports' = reports \cup {r}
               /\ r.aed_id = req.aed_id
               /\ r.report_type = req.report_type
               /\ \E a \in db' :
                    /\ a.id = r.aed_id
                    /\ a.is_flagged
                    /\ a.flag_reason = PyStr(r.report_type)
                    /\ a.flagged_at = r.created_at
     /\ ~ReportAedIssueEnds =>
          \A a \in db : \A b \in db' : a.id = b.id => a = b]_vars

\* A report_aed_issue request was committed while a refresh was in flight:
\* the AED was not flagged when the refresh started and is stored flagged,
\* with the report, before the refresh has deleted anything.
C15_Witness ==
  /\ resp.op = "report_aed_issue" /\ resp.code = 200
  /\ \E p \in Procs :
       /\ Refreshing(p)
       /\ pc[p] \in {"download", "parse", "map", "count_before", "begin", "delete"}
       /\ \E a \in db : \E b \in hist[p].before : \E r \in reports :
            /\ a.id = b.id /\ ~b.is_flagged /\ a.is_flagged
            /\ r.aed_id = a.id /\ a.flagged_at = r.created_at

\* C16: every stored report has a valid type and a valid status; a report
\* is created pending; a status update answered 400 leaves the reports as
\* they were.
C16_ReportTypeAndStatusValid ==
  /\ [](\A r \in reports :
          r.report_type \in valid_report_types /\ r.status \in valid_statuses)
  /\ [][/\ \A r \in reports' \ reports :
            (~\E q \in reports : q.id = r.id) => r.status = "pending"
        /\ (resp'.op = "update_report_status" /\ resp'.code = 400) =>
             reports' = reports]_vars

\* A status update was answered 400 while a report was stored.
C16_Witness ==
  /\ resp.op = "update_report_status" /\ resp.code = 400
  /\ reports # {}

(***************************************************************************)
(* The query endpoints.                                                    *)
(***************************************************************************)
\* The response is that of a nearby search.
NearbyAnswered == resp.op = "get_nearby_aeds"

\* C17: a nearby search whose latitude is outside [-90,90], whose longitude
\* is outside [-180,180] or whose radius is not greater than 0 is answered
\* with a client error, and no spatial statement was sent to the store.
C17_NearbyRejectsBadInput ==
  NearbyAnswered =>
    LET lat == resp.args[1]
        lng == resp.args[2]
        radius == resp.args[3]
    IN (lat < -90 \/ lat > 90 \/ lng < -180 \/ lng > 180 \/ radius <= 0) =>
         (resp.code >= 400 /\ resp.code < 500 /\ resp.spatial_queries = 0)

\* C18: a read query (nearby, sorted by location, coverage) that met a
\* failure of the storage connection is answered 503.
C18_ConnectionFailureIs503 ==
  (/\ resp.op \in {"get_nearby_aeds", "get_aeds_sorted_by_location",
                    "evaluate_aed_coverage"}
   /\ resp.fault = "connection") => resp.code = 503

\* The stored AEDs within the radius of the nearby search just answered
\* (the public ones when public_only is set).
NearbyMatches ==
  LET lat == resp.args[1]
      lng == resp.args[2]
      radius == resp.args[3]
      public_only == resp.args[5]
  IN {a \in db :
        /\ ST_Distance(geo_point(a), ST_MakePoint(lng, lat)) <= radius * 100
        /\ public_only => a.public_use = TRUE}

\* The distance of stored AED a from the point of the search just answered.
NearbyDistance(a) == ST_Distance(geo_point(a), ST_MakePoint(resp.args[2], resp.args[1]))

\* C19: a nearby search with a legal point and a radius above 0 that met no
\* storage failure is answered 200 with exactly the matching records when
\* they are no more than the limit, else with the limit nearest ones: each
\* once, with its ground distance, in order of non-decreasing distance, and
\* no record left out is nearer than one returned; no match gives an empty
\* list.
C19_NearbyNearestWithinRadius ==
  (/\ NearbyAnswered
   /\ InRange(resp.args[1], resp.args[2])
   /\ resp.args[3] > 0
   /\ resp.fault = "") =>
    LET limit == resp.args[4]
        data == resp.data
        n == Len(data)
        returned == {data[i].id : i \in 1..n}
    IN /\ resp.code = 200
       /\ n = (IF limit < Cardinality(NearbyMatches) THEN limit
               ELSE Cardinality(NearbyMatches))
       /\ \A i \in 1..n :
            \E a \in NearbyMatches : a.id = data[i].id /\ data[i].distance = NearbyDistance(a)
       /\ \A i \in 1..n : \A j \in 1..n :
            i < j => (data[i].id # data[j].id /\ data[i].distance <= data[j].distance)
       /\ \A a \in NearbyMatches :
            a.id \notin returned => \A i \in 1..n : data[i].distance <= NearbyDistance(a)

\* Of three stored AEDs, a nearby search returned the two within the radius,
\* the nearer one first, and left out the one beyond it.
C19_Witness ==
  /\ NearbyAnswered
  /\ resp.code = 200
  /\ Cardinality(db) = 3
  /\ Len(resp.data) = 2
  /\ resp.data[1].distance < resp.data[2].distance
  /\ \E a \in db : NearbyDistance(a) > resp.args[3] * 100

\* The rating the thresholds give for count matches within radius (tenths of
\* a kilometre, above 0), with pi5/100000 for pi.
RatingOfDensity(count, radius, pi5) ==
  IF density_at_least(count, radius, pi5, 2, 1) THEN "Excellent"
  ELSE IF density_at_least(count, radius, pi5, 1, 1) THEN "Good"
  ELSE IF density_at_least(count, radius, pi5, 1, 2) THEN "Moderate"
  ELSE IF count > 0 THEN "Poor"
  ELSE "No Coverage"

\* C20: a coverage evaluation answers with one of the five ratings, never
\* "Unknown"; for a radius above 0 it is the rating of the density count /
\* (pi * radius^2) under the inclusive thresholds 2.0, 1.0 and 0.5, "Poor"
\* for any other density above 0 and "No Coverage" for 0 (pi taken between
\* 3.14159 and 3.1416); 10 matches within 5 km rate "Poor".
C20_CoverageRating ==
  /\ coverage_rating(10, 50) = "Poor"
  /\ (resp.op = "evaluate_aed_coverage" /\ resp.code = 200) =>
       LET count == resp.data[1].aed_count
           rating == resp.data[1].rating
           radius == resp.args[3]
       IN /\ rating \in {"Excellent", "Good", "Moderate", "Poor", "No Coverage"}
          /\ radius > 0 =>
               /\ rating = RatingOfDensity(count, radius, 314159)
               /\ rating = RatingOfDensity(count, radius, 314160)

\* A coverage evaluation found one AED within half a kilometre and rated
\* the area "Good" (density about 1.27).
C20_Witness ==
  /\ resp.op = "evaluate_aed_coverage"
  /\ resp.code = 200
  /\ resp.args[3] = 5
  /\ resp.data[1].aed_count = 1
  /\ resp.data[1].rating = "Good"

(***************************************************************************)
(* The refresh trigger.                                                    *)
(***************************************************************************)
\* C21: the refresh trigger always answers "accepted"; the step that answers
\* changes neither the stored rows nor any session and leaves the task
\* scheduled, not started; and no later step of the task, whether it
\* commits, rolls back or aborts, changes that response.
C21_TriggerAnswersAccepted ==
  /\ [](resp.op = "refresh_data" => (resp.code = 200 /\ resp.data = <<"accepted">>))
  /\ [][/\ resp' # resp =>
             /\ db' = db /\ txn' = txn /\ hist' = hist
             /\ \E p \in Procs : pc'[p] = "scheduled"
        /\ (db' # db \/ txn' # txn \/ hist' # hist) => resp' = resp]_vars

\* C21 witness: the trigger answered "accepted", and the task it scheduled
\* rolled back over a non-empty dataset.
C21_Witness ==
  /\ resp.op = "refresh_data"
  /\ resp.data = <<"accepted">>
  /\ \E p \in Procs :
       /\ job[p].path = "task"
       /\ pc[p] = "done"
       /\ hist[p].outcome = "rolled_back"
       /\ hist[p].before # {}

(***************************************************************************)
(* Termination.                                                            *)
(***************************************************************************)
\* Run p is between its start and its end.
Running(p) == pc[p] \notin {"idle", "scheduled", "done"}

\* C22 (as claimed): every refresh or startup load that has started
\* eventually ends, with its session closed and one outcome recorded.
C22_EveryRunTerminates ==
  \A p \in Procs :
    Running(p) ~>
      (/\ pc[p] = "done"
       /\ txn[p] = Txn0
       /\ hist[p].outcome \in {"aborted", "committed", "rolled_back", "loaded", "not_needed"})

(***************************************************************************)
(* The result of update_aed_database.                                      *)
(***************************************************************************)
\* C23 (as claimed): when update_aed_database has returned status "failed"
\* the stored set is the one from before the call, and when it has returned
\* "success" its transaction was committed.
C23_FailedMeansUntouched ==
  \A p \in Procs :
    (job[p].path = "service" /\ pc[p] = "done") =>
      /\ job[p].status = "failed" => db = hist[p].before
      /\ job[p].status = "success" => hist[p].outcome = "committed"

(***************************************************************************)
(* Input validation in the reports routes.                                 *)
(***************************************************************************)
\* C24 (as claimed): a request that a reports handler's own input
\* validation turned down (create_report with aed_id < 1, get_report_stats
\* with a malformed date) is answered with a 4xx status, and the step that
\* answers it stores nothing.
C24_ValidationIsClientError ==
  /\ [](resp.fault = "validation" => (400 <= resp.code /\ resp.code <= 499))
  /\ [][(resp'.fault = "validation" /\ resp' # resp) =>
          (reports' = reports /\ db' = db)]_vars

(***************************************************************************)
(* Flags in the search responses.                                          *)
(***************************************************************************)
\* The response is that of one of the two searches, with rows.
SearchAnswered ==
  /\ resp.op \in {"get_nearby_aeds", "get_aeds_sorted_by_location"}
  /\ resp.code = 200

\* C25 (as claimed): every record in a search response carries the
\* is_flagged, flag_reason and flagged_at stored for it at query time.
C25_SearchShowsStoredFlags ==
  SearchAnswered =>
    \A i \in DOMAIN resp.data :
      \E a \in db :
        /\ a.id = resp.data[i].id
        /\ a.is_flagged = resp.data[i].is_flagged
        /\ a.flag_reason = resp.data[i].flag_reason
        /\ a.flagged_at = resp.data[i].flagged_at

(***************************************************************************)
(* Consistency of a coverage response.                                     *)
(***************************************************************************)
\* The response is a coverage result.
CoverageAnswered == resp.op = "evaluate_aed_coverage" /\ resp.code = 200

\* C26 (as claimed): in every coverage response public_aeds <= aed_count,
\* private_aeds = aed_count - public_aeds >= 0, and the distance statistics
\* are non-null exactly when aed_count > 0, also when a refresh commits
\* between the handler's statements.
C26_CoverageConsistent ==
  CoverageAnswered =>
    LET d == resp.data[1]
    IN /\ d.public_aeds <= d.aed_count
       /\ d.private_aeds = d.aed_count - d.public_aeds
       /\ d.private_aeds >= 0
       /\ d.min_distance # None <=> d.aed_count > 0
       /\ d.max_distance # None <=> d.aed_count > 0

\* C27 (as claimed): a coverage response rates "No Coverage" if and only if
\* its aed_count is 0, for every radius the endpoint takes.
C27_NoCoverageIffNoAed ==
  CoverageAnswered =>
    (resp.data[1].rating = "No Coverage" <=> resp.data[1].aed_count = 0)

(***************************************************************************)
(* Overlapping refreshes.                                                  *)
(***************************************************************************)
\* Both sessions have run a refresh to its end.
BothFinished == \A p \in Procs : Refreshing(p) /\ pc[p] = "done"

\* C28 (as claimed): once two refreshes of the same feed have finished, one
\* of them at least having committed, the stored set is the result of a
\* single refresh: one record per accepted feed row, and not the empty set
\* when the feed has accepted rows.
C28_OverlapLeavesOneDataset ==
  (BothFinished /\ \E p \in Procs : hist[p].outcome = "committed") =>
    /\ \E p \in Procs :
         /\ hist[p].outcome = "committed"
         /\ db = ExpectedDataset(job[p].path, job[p].run)
    /\ \A i \in AcceptedRows("service") : Cardinality({r \in db : r.src = i}) = 1

\* The requests of client ip that were let through with a time in (t - Minute, t]
AllowedInWindow(ip, t) ==
  {k \in DOMAIN request_log :
     /\ request_log[k].ip = ip
     /\ request_log[k].allowed
     /\ t - Minute < request_log[k].t
     /\ request_log[k].t <= t}

\* The earlier requests of the client of request k, allowed or not, that are
\* less than a minute older than it
OwnRecent(k) ==
  {j \in 1..(k - 1) :
     /\ request_log[j].ip = request_log[k].ip
     /\ request_log[j].t > request_log[k].t - Minute}

\* C29: the limiter lets through at most requests_per_minute requests of one
\* client within any sliding minute; a request it denies is answered 429 by the
\* middleware and reaches no route handler; and the verdict on a request is
\* decided by that client's own earlier requests alone, whatever the other
\* clients have sent.
C29_RateLimitPerClient ==
  /\ \A ip \in Clients : \A t \in 0..MaxTime :
       Cardinality(AllowedInWindow(ip, t)) <= requests_per_minute
  /\ \A k \in DOMAIN request_log :
       request_log[k].allowed <=> Cardinality(OwnRecent(k)) < requests_per_minute
  /\ request_log # <<>> =>
       LET last == request_log[Len(request_log)]
       IN /\ resp.args = <<last.ip>>
          /\ last.allowed => resp.op = "call_next"
          /\ ~last.allowed => resp.op = "api_middleware" /\ resp.code = 429

\* One client is denied while the other is let through at the same time, and
\* the denied client is let through again once its minute has passed.
C29_Witness ==
  \E i, j, k \in DOMAIN request_log :
    /\ i < j /\ j < k
    /\ ~request_log[i].allowed
    /\ request_log[j].ip # request_log[i].ip
    /\ request_log[j].t = request_log[i].t
    /\ request_log[j].allowed
    /\ request_log[k].ip = request_log[i].ip
    /\ request_log[k].allowed
    /\ resp.op = "call_next"

(***************************************************************************)
(* The initial load of startup_event.                                      *)
(***************************************************************************)
\* C30 (as claimed): the startup load writes only when the table was empty,
\* and when startup_event has returned the stored set is either still empty
\* or holds every accepted row of the feed, never a part of them.
C30_StartupAllOrNothing ==
  \A p \in Procs :
    (job[p].path = "startup" /\ pc[p] = "done") =>
      /\ db # hist[p].before => hist[p].before = {}
      /\ hist[p].before = {} =>
           db = {} \/ db = ExpectedDataset("startup", job[p].run)

====
